---- MODULE Spec2Model ----
\* A model of ds-decomp's section table (lib/src/config/section.rs), symbol
\* lookup (src/config/symbol.rs) and disassembly emitter (src/cmd/dis.rs).
EXTENDS Integers, Sequences, FiniteSets, TLC

VARIABLES
    call,               \* SectionSpec: the last Section::new / Section::inherit call
    made,               \* SectionSpec: the Result that call returned
    sections,           \* Sections.sections: Vec<Section>
    sections_by_name,   \* Sections.sections_by_name: HashMap<String, SectionIndex>
    last,               \* Spec: the last call on the table and what it returned
    attempted,          \* OrderSpec: the sections add has been called with
    failed,             \* OrderSpec: whether one of those calls returned an error
    symbol_map,         \* SymbolLookup.symbol_map: the local module's symbols
    symbol_maps,        \* SymbolLookup.symbol_maps: module kind -> symbols
    relocations,        \* SymbolLookup.relocations: source address -> relocation
    lk,                 \* LookupSpec: the last SymbolLookup call and its outcome
    dis_section,        \* DisSpec: the section Disassemble::disassemble is writing
    dis_symbols,        \* DisSpec: symbol_map.iter_by_address(), as a sequence
    dis_next,           \* DisSpec: position of symbol_iter (the symbol next() returns)
    offset,             \* disassemble: offset within section
    out,                \* DisSpec: the bytes the directives written so far denote
    labels,             \* DisSpec: the labels written, each with its output position
    dis_pc,             \* DisSpec: "symbols" (in the loop), "done" or "panic"
    wa,                 \* DataSpec: the last SymData::write_assembly call and its outcome
    ps,                 \* ParseSpec: the last Section::parse / parse_inherit call
    lcf,                \* LcfSpec: the last Lcf writer call and the text it wrote
    run,                \* RunSpec: the progress of Disassemble::run
    db                  \* DumpSpec: the state of Disassemble::dump_bytes

sectionVars == <<call, made>>
tableVars == <<sections, sections_by_name, last>>
orderVars == <<attempted, failed>>
lookupVars == <<symbol_map, symbol_maps, relocations, lk>>
disVars == <<dis_section, dis_symbols, dis_next, offset, out, labels, dis_pc>>
vars == <<call, made, sections, sections_by_name, last, attempted, failed,
          symbol_map, symbol_maps, relocations, lk,
          dis_section, dis_symbols, dis_next, offset, out, labels, dis_pc,
          wa, ps, lcf, run, db>>
restVars == <<wa, ps, lcf, run, db>>
coreVars == <<sectionVars, tableVars, orderVars, lookupVars, disVars>>

\* ---------------------------------------------------------------- bounds

MaxAddr == 2
MaxAlign == 3
MaxSet == 3

Addrs == 0..MaxAddr
Aligns == 0..MaxAlign
Names == {".text", ".data", ".bss"}
Kinds == {"code", "data", "bss"}

\* ---------------------------------------------------------------- values

None == [some |-> FALSE]
Some(v) == [some |-> TRUE, val |-> v]
Ok(v) == [ok |-> TRUE, val |-> v]
Err(e) == [ok |-> FALSE, err |-> e]
NoCall == [fn |-> "none"]

\* a & b on unsigned integers
RECURSIVE BitAnd(_, _)
BitAnd(a, b) ==
    IF a = 0 \/ b = 0 THEN 0
    ELSE (a % 2) * (b % 2) + 2 * BitAnd(a \div 2, b \div 2)

\* mutant: the n & (n - 1) test without the test for zero
IsPowerOfTwoOrZero(n) == n = 0 \/ BitAnd(n, n - 1) = 0

\* u32::is_power_of_two: exactly one bit set (false for 0)
IsPowerOfTwo(n) == n > 0 /\ BitAnd(n, n - 1) = 0

\* ---------------------------------------------------------------- Section

\* Section::new
SectionNew(name, kind, start_address, end_address, alignment) ==
    IF end_address < start_address
    THEN Err([kind |-> "EndBeforeStart", name |-> name])
    ELSE IF ~IsPowerOfTwo(alignment)
    THEN Err([kind |-> "AlignmentPowerOfTwo", name |-> name])
    ELSE LET misalign_mask == alignment - 1
         IN  IF BitAnd(start_address, misalign_mask) # 0
             THEN Err([kind |-> "MisalignedStart", name |-> name])
             ELSE Ok([name |-> name, kind |-> kind, start_address |-> start_address,
                      end_address |-> end_address, alignment |-> alignment])

\* Section::inherit
SectionInherit(other, start_address, end_address) ==
    SectionNew(other.name, other.kind, start_address, end_address, other.alignment)

\* Section::size: a u32 subtraction, which underflows when end < start
SectionSize(s) ==
    IF s.end_address >= s.start_address
    THEN s.end_address - s.start_address
    ELSE "underflow"

\* mutant: only tests whether self starts inside other
OverlapsWithStartInside(self, other) ==
    other.start_address <= self.start_address /\ self.start_address < other.end_address

\* Section::overlaps_with
OverlapsWith(self, other) ==
    self.start_address < other.end_address /\ other.start_address < self.end_address

\* ---------------------------------------------------------------- Sections

\* Sections::new
SectionsNew == [sections |-> <<>>, sections_by_name |-> [n \in {} |-> 0]]

\* the first stored section the new one overlaps with, in iteration order
FirstOverlap(secs, section) ==
    LET hits == {i \in 1..Len(secs) : OverlapsWith(section, secs[i])}
    IN  IF hits = {} THEN 0 ELSE CHOOSE i \in hits : \A j \in hits : i <= j

\* mutant: the overlap loop looks at the section stored last only
SectionsAddLastOnly(secs, by_name, section) ==
    IF section.name \in DOMAIN by_name
    THEN [sections |-> secs, sections_by_name |-> by_name,
          ret |-> Err([kind |-> "DuplicateName", name |-> section.name])]
    ELSE IF Len(secs) > 0 /\ OverlapsWith(section, secs[Len(secs)])
    THEN [sections |-> secs, sections_by_name |-> by_name,
          ret |-> Err([kind |-> "Overlapping", name |-> section.name,
                       other_name |-> secs[Len(secs)].name])]
    ELSE [sections |-> Append(secs, section),
          sections_by_name |->
              [n \in DOMAIN by_name \cup {section.name} |->
                  IF n = section.name THEN Len(secs) ELSE by_name[n]],
          ret |-> Ok(Len(secs))]

\* Sections::add: the table after the call and the value returned
SectionsAdd(secs, by_name, section) ==
    IF section.name \in DOMAIN by_name
    THEN [sections |-> secs, sections_by_name |-> by_name,
          ret |-> Err([kind |-> "DuplicateName", name |-> section.name])]
    ELSE IF FirstOverlap(secs, section) # 0
    THEN [sections |-> secs, sections_by_name |-> by_name,
          ret |-> Err([kind |-> "Overlapping", name |-> section.name,
                       other_name |-> secs[FirstOverlap(secs, section)].name])]
    ELSE LET index == Len(secs)
         IN  [sections |-> Append(secs, section),
              sections_by_name |->
                  [n \in DOMAIN by_name \cup {section.name} |->
                      IF n = section.name THEN index ELSE by_name[n]],
              ret |-> Ok(index)]

\* mutant: the end address counts as contained
GetByContainedAddressInclusive(secs, address) ==
    LET hits == {i \in 1..Len(secs) :
                    address >= secs[i].start_address /\ address <= secs[i].end_address}
    IN  IF hits = {} THEN None
        ELSE LET i == CHOOSE i \in hits : \A j \in hits : i <= j
             IN  Some([index |-> i - 1, section |-> secs[i]])

\* Sections::get_by_contained_address: the first (index, section) containing it
GetByContainedAddress(secs, address) ==
    LET hits == {i \in 1..Len(secs) :
                    address >= secs[i].start_address /\ address < secs[i].end_address}
    IN  IF hits = {} THEN None
        ELSE LET i == CHOOSE i \in hits : \A j \in hits : i <= j
             IN  Some([index |-> i - 1, section |-> secs[i]])

\* Sections::by_name
ByName(secs, by_name, name) ==
    IF name \in DOMAIN by_name
    THEN Some([index |-> by_name[name], section |-> secs[by_name[name] + 1]])
    ELSE None

\* ---------------------------------------------------------------- symbols

\* outcomes of a call: a returned value, an anyhow error, a panic
Returned(v) == [outcome |-> "ok", val |-> v]
Failed(msg) == [outcome |-> "err", msg |-> msg]
Panicked(msg) == [outcome |-> "panic", msg |-> msg]

\* the module the lookup runs in (SymbolLookup.module_kind)
LocalModule == "arm9"

\* the range of u32, folded to the largest modulus the model checker's
\* integers allow
U32Modulus == 2147483647

\* (x as u32) of an i64
AsU32(x) == x % U32Modulus

HexDigit(d) ==
    <<"0", "1", "2", "3", "4", "5", "6", "7", "8", "9", "a", "b", "c", "d", "e", "f">>[d + 1]

RECURSIVE HexDigits(_)
HexDigits(n) ==
    IF n < 16 THEN <<HexDigit(n)>> ELSE HexDigits(n \div 16) \o <<HexDigit(n % 16)>>

\* format!("{:#x}", n)
Hex(n) == <<"0x">> \o HexDigits(n)

\* SymbolMap::by_address: the symbol at exactly this address
ByAddress(map, address) ==
    LET hits == {s \in map : s.addr = address}
    IN  IF hits = {} THEN None ELSE Some(CHOOSE s \in hits : TRUE)

\* SymbolMap::get_function: the function whose [addr, addr + size) holds it
GetFunction(map, address) ==
    LET hits == {s \in map : /\ s.kind = "function"
                             /\ s.addr <= address
                             /\ address < s.addr + s.size}
    IN  IF hits = {} THEN None ELSE Some(CHOOSE s \in hits : TRUE)

\* SymbolMaps::get
SymbolMapsGet(maps, module_kind) ==
    IF module_kind \in DOMAIN maps THEN Some(maps[module_kind]) ELSE None

\* Relocations::get
RelocationsGet(relocs, source) ==
    IF source \in DOMAIN relocs THEN Some(relocs[source]) ELSE None

\* RelocationModule::first_module
FirstModule(module) ==
    CASE module.kind = "none" -> None
      [] module.kind = "single" -> Some(module.module)
      [] OTHER -> Some(Head(module.ids))

\* RelocationModule::other_modules
OtherModules(module) ==
    IF module.kind = "overlays" THEN Some(Tail(module.ids)) ELSE None

\* mutant: the containing function is tried before the exact address
ResolveExternalFunctionFirst(map, address) ==
    IF GetFunction(map, address).some THEN GetFunction(map, address)
    ELSE ByAddress(map, address)

\* write_symbol: by_address, else get_function, in the target module's map
ResolveExternal(map, address) ==
    IF ByAddress(map, address).some THEN ByAddress(map, address)
    ELSE GetFunction(map, address)

\* write_ambiguous_symbols_comment: by_address, else get_function, in a peer's map
ResolvePeer(map, address) ==
    IF ByAddress(map, address).some THEN ByAddress(map, address)
    ELSE GetFunction(map, address)

\* the loop of write_ambiguous_symbols_comment from peer i on (i counts from 1,
\* the code's enumerate() index is i - 1)
RECURSIVE CommentNames(_, _, _, _)
CommentNames(maps, overlays, i, destination) ==
    IF i > Len(overlays) THEN <<>>
    ELSE LET external_symbol_map == SymbolMapsGet(maps, overlays[i])
             rest == CommentNames(maps, overlays, i + 1, destination)
         IN  IF ~external_symbol_map.some THEN rest
             ELSE LET symbol == ResolvePeer(external_symbol_map.val, destination)
                  IN  IF ~symbol.some THEN rest
                      ELSE (IF i - 1 > 0 THEN <<", ">> ELSE <<>>)
                           \o <<symbol.val.name>> \o rest

\* SymbolLookup::write_ambiguous_symbols_comment: the outcome and the text written
WriteAmbiguousSymbolsComment(maps, relocs, source, destination) ==
    LET relocation == RelocationsGet(relocs, source)
    IN  IF ~relocation.some THEN [ret |-> Returned("unit"), w |-> <<>>]
        ELSE LET overlays == OtherModules(relocation.val.module)
             IN  IF overlays.some
                 THEN [ret |-> Returned("unit"),
                       w |-> <<" ; ">> \o CommentNames(maps, overlays.val, 1, destination)]
                 ELSE [ret |-> Returned("unit"), w |-> <<>>]

\* mutant: the line break is written but the flag is left set
TakeNewLineKeepFlag(new_line) ==
    IF new_line THEN [w |-> <<"\n">>, new_line |-> TRUE]
    ELSE [w |-> <<>>, new_line |-> new_line]

\* write_symbol: if *new_line { writeln!(w)?; *new_line = false; }
TakeNewLine(new_line) ==
    IF new_line THEN [w |-> <<"\n">>, new_line |-> FALSE]
    ELSE [w |-> <<>>, new_line |-> new_line]

\* write_symbol: the addend after the symbol name
AddendText(addend) ==
    IF addend > 0 THEN <<"+">> \o Hex(addend)
    ELSE IF addend < 0 THEN <<"-">> \o Hex(-addend)
    ELSE <<>>

\* SymbolLookup::write_symbol: the outcome, the text written, *new_line after
WriteSymbol(local, maps, relocs, source, destination, new_line, indent) ==
    LET rel == RelocationsGet(relocs, source)
        nothing(ret) == [ret |-> ret, w |-> <<>>, new_line |-> new_line]
    IN  IF rel.some
        THEN LET relocation == rel.val
                 first == FirstModule(relocation.module)
             IN  IF first.some
                 THEN LET module_kind == first.val
                          symbol_address == AsU32(destination - relocation.addend)
                          external_symbol_map == SymbolMapsGet(maps, module_kind)
                      IN  IF symbol_address # relocation.to_address
                          THEN nothing(Panicked("assertion failed"))
                          ELSE IF ~external_symbol_map.some
                          THEN nothing(Failed("Relocation has no symbol map"))
                          ELSE LET symbol == ResolveExternal(external_symbol_map.val,
                                                             symbol_address)
                                   brk == TakeNewLine(new_line)
                                   comment == WriteAmbiguousSymbolsComment(
                                                  maps, relocs, source, symbol_address)
                               IN  IF ~symbol.some
                                   THEN nothing(Failed("Symbol not found for relocation"))
                                   ELSE [ret |-> Returned(TRUE),
                                         w |-> brk.w
                                               \o <<indent, ".word ", symbol.val.name>>
                                               \o AddendText(relocation.addend)
                                               \o comment.w \o <<"\n">>,
                                         new_line |-> brk.new_line]
                 ELSE nothing(Returned(FALSE))
        ELSE LET symbol == ByAddress(local, destination)
                 brk == TakeNewLine(new_line)
             IN  IF symbol.some
                 THEN [ret |-> Returned(TRUE),
                       w |-> brk.w \o <<indent, ".word ", symbol.val.name, "\n">>,
                       new_line |-> brk.new_line]
                 ELSE nothing(Returned(FALSE))

\* SymbolLookup::lookup_symbol_name: the outcome (a name, None, or a panic)
LookupSymbolName(local, maps, relocs, source, destination) ==
    LET symbol == ByAddress(local, destination)
        rel == RelocationsGet(relocs, source)
    IN  IF symbol.some THEN Returned(Some(symbol.val.name))
        ELSE IF rel.some
        THEN LET first == FirstModule(rel.val.module)
             IN  IF ~first.some THEN Panicked("unwrap on None: first_module")
                 ELSE LET external_symbol_map == SymbolMapsGet(maps, first.val)
                      IN  IF ~external_symbol_map.some
                          THEN Panicked("unwrap on None: symbol_maps.get")
                          ELSE LET ext == ByAddress(external_symbol_map.val, destination)
                               IN  IF ext.some THEN Returned(Some(ext.val.name))
                                   ELSE Returned(None)
        ELSE Returned(None)

\* ---------------------------------------------------------------- Section parsing

\* util::parse::parse_u32 on the values the lines carry: decimal and 0x-prefixed
\* hexadecimal parse, anything else does not
ParseU32(value) ==
    CASE value \in {"0", "0x0"} -> Ok(0)
      [] value \in {"1", "0x1"} -> Ok(1)
      [] value \in {"2", "0x2"} -> Ok(2)
      [] value \in {"3", "0x3"} -> Ok(3)
      [] value \in {"4", "0x4"} -> Ok(4)
      [] OTHER -> Err([kind |-> "ParseIntError"])

\* SectionKind::parse
SectionKindParse(value) ==
    CASE value = "code" -> Ok("code")
      [] value = "data" -> Ok("data")
      [] value = "bss" -> Ok("bss")
      [] OTHER -> Err([kind |-> "UnknownKind", value |-> value])

NoAttributes == [kind |-> None, start |-> None, end |-> None, align |-> None]

\* Section::parse, the loop over iter_attributes(words) from attribute i on
RECURSIVE ParseAttributes(_, _, _)
ParseAttributes(attributes, i, got) ==
    IF i > Len(attributes) THEN Ok(got)
    ELSE LET key == attributes[i].key
             value == attributes[i].value
             number == ParseU32(value)
         IN  CASE key = "kind" ->
                    IF SectionKindParse(value).ok
                    THEN ParseAttributes(attributes, i + 1,
                                         [got EXCEPT !.kind = Some(SectionKindParse(value).val)])
                    ELSE Err([kind |-> "SectionKind", source |-> SectionKindParse(value).err])
               [] key = "start" ->
                    IF number.ok
                    THEN ParseAttributes(attributes, i + 1, [got EXCEPT !.start = Some(number.val)])
                    ELSE Err([kind |-> "ParseStartAddress", value |-> value])
               [] key = "end" ->
                    IF number.ok
                    THEN ParseAttributes(attributes, i + 1, [got EXCEPT !.end = Some(number.val)])
                    ELSE Err([kind |-> "ParseEndAddress", value |-> value])
               [] key = "align" ->
                    IF number.ok
                    THEN ParseAttributes(attributes, i + 1, [got EXCEPT !.align = Some(number.val)])
                    ELSE Err([kind |-> "ParseAlignment", value |-> value])
               [] OTHER -> Err([kind |-> "UnknownAttribute", key |-> key])

\* mutant: the error names `kind` whatever is missing
MissingAttributeKind(attribute) == Err([kind |-> "MissingAttribute", attribute |-> "kind"])

\* MissingAttributeSnafu { context, attribute }.build()
MissingAttribute(attribute) == Err([kind |-> "MissingAttribute", attribute |-> attribute])

\* .map_err(|error| SectionSnafu { context, error }.build()), then Some
WrapSection(made_section) ==
    IF made_section.ok THEN Ok(Some(made_section.val))
    ELSE Err([kind |-> "Section", error |-> made_section.err])

\* Section::parse
SectionParse(line) ==
    IF ~line.name.some THEN Ok(None)
    ELSE LET looped == ParseAttributes(line.attributes, 1, NoAttributes)
             got == looped.val
         IN  IF ~looped.ok THEN looped
             ELSE IF ~got.kind.some THEN MissingAttribute("kind")
             ELSE IF ~got.start.some THEN MissingAttribute("start")
             ELSE IF ~got.end.some THEN MissingAttribute("end")
             ELSE IF ~got.align.some THEN MissingAttribute("align")
             ELSE WrapSection(SectionNew(line.name.val, got.kind.val, got.start.val,
                                         got.end.val, got.align.val))

\* Section::parse_inherit, the loop over iter_attributes(words) from attribute i on
RECURSIVE ParseInheritAttributes(_, _, _)
ParseInheritAttributes(attributes, i, got) ==
    IF i > Len(attributes) THEN Ok(got)
    ELSE LET key == attributes[i].key
             value == attributes[i].value
             number == ParseU32(value)
         IN  CASE key = "kind" -> Err([kind |-> "InheritedAttribute", attribute |-> "kind"])
               [] key = "start" ->
                    IF number.ok
                    THEN ParseInheritAttributes(attributes, i + 1,
                                                [got EXCEPT !.start = Some(number.val)])
                    ELSE Err([kind |-> "ParseStartAddress", value |-> value])
               [] key = "end" ->
                    IF number.ok
                    THEN ParseInheritAttributes(attributes, i + 1,
                                                [got EXCEPT !.end = Some(number.val)])
                    ELSE Err([kind |-> "ParseEndAddress", value |-> value])
               [] key = "align" -> Err([kind |-> "InheritedAttribute", attribute |-> "align"])
               [] OTHER -> Err([kind |-> "UnknownAttribute", key |-> key])

\* mutant: the section is built from the line's name and the first header section
InheritFromFirst(secs, by_name, name) ==
    IF name \in DOMAIN by_name THEN Some(secs[1]) ELSE None

\* let (_, inherit_section) = sections.by_name(name)
InheritSection(secs, by_name, name) ==
    LET found == ByName(secs, by_name, name)
    IN  IF found.some THEN Some(found.val.section) ELSE None

\* Section::parse_inherit
SectionParseInherit(line, secs, by_name) ==
    IF ~line.name.some THEN Ok(None)
    ELSE LET inherit_section == InheritSection(secs, by_name, line.name.val)
             looped == ParseInheritAttributes(line.attributes, 1, NoAttributes)
             got == looped.val
         IN  IF ~inherit_section.some
             THEN Err([kind |-> "NotInHeader", name |-> line.name.val])
             ELSE IF ~looped.ok THEN looped
             ELSE IF ~got.start.some THEN MissingAttribute("start")
             ELSE IF ~got.end.some THEN MissingAttribute("end")
             ELSE WrapSection(SectionInherit(inherit_section.val, got.start.val, got.end.val))

\* ---------------------------------------------------------------- data emission

\* the indent write_assembly writes and passes to write_symbol
DataIndent == "    "

\* bytes per row of write_assembly
RowWidth == 16

\* SymData::size: the declared size, if any
DataSize(self) == self.size

\* SymData::element_size
ElementSize(self) ==
    CASE self.variant = "short" -> 2
      [] self.variant = "word" -> 4
      [] OTHER -> 1

\* u16::from_le_slice, u32::from_le_slice on a slice long enough
LeU16(bytes) == bytes[1] + 256 * bytes[2]
LeU32(bytes) == bytes[1] + 256 * bytes[2] + 65536 * bytes[3] + 16777216 * bytes[4]

\* format!("0x{:02x}", n)
Hex02(n) == <<"0x">> \o (IF n < 16 THEN <<"0">> ELSE <<>>) \o HexDigits(n)

\* the first literal of a directive line
FirstLiteral(self, bytes) ==
    CASE self.variant \in {"any", "byte"} -> Returned(<<DataIndent, ".byte ">> \o Hex02(bytes[1]))
      [] self.variant = "short" -> Returned(<<DataIndent, ".short ">> \o Hex(bytes[1]))
      [] OTHER -> IF Len(bytes) < 4 THEN Panicked("from_le_slice")
                  ELSE Returned(<<DataIndent, ".word ">> \o Hex(LeU32(bytes)))

\* a literal after the first of a directive line
NextLiteral(self, bytes) ==
    CASE self.variant \in {"any", "byte"} -> Returned(<<", ">> \o Hex02(bytes[1]))
      [] self.variant = "short" -> IF Len(bytes) < 2 THEN Panicked("from_le_slice")
                                   ELSE Returned(<<", ">> \o Hex(LeU16(bytes)))
      [] OTHER -> IF Len(bytes) < 4 THEN Panicked("from_le_slice")
                  ELSE Returned(<<", ">> \o Hex(LeU32(bytes)))

\* the n byte offsets from at on
Offsets(at, n) == [i \in 1..n |-> at + i - 1]

\* write_assembly, the inner loop: the columns of the row at offset, from column on;
\* emitted lists, in order, the offsets of the bytes the text written stands for
RECURSIVE WriteColumns(_, _, _, _, _, _, _, _, _)
WriteColumns(self, symbol, bytes, symbols, row, column, data_directive, w, emitted) ==
    LET at == row + column
        rest == SubSeq(bytes, at + 1, Len(bytes))
        address == AsU32(symbol.addr + at)
        try == Len(rest) >= 4 /\ address % 4 = 0
        ws == WriteSymbol(symbols.symbol_map, symbols.symbol_maps, symbols.relocations,
                          address, LeU32(rest), data_directive, DataIndent)
        literal == IF data_directive THEN NextLiteral(self, rest)
                   ELSE FirstLiteral(self, rest)
        read == IF ElementSize(self) < Len(rest) THEN ElementSize(self) ELSE Len(rest)
    IN  IF column >= RowWidth \/ at >= Len(bytes)
        THEN [ret |-> Returned(TRUE), w |-> w, data_directive |-> data_directive,
              emitted |-> emitted]
        ELSE IF try /\ ws.ret.outcome # "ok"
        THEN [ret |-> ws.ret, w |-> w \o ws.w, data_directive |-> ws.new_line,
              emitted |-> emitted]
        ELSE IF try /\ ws.ret.val
        THEN WriteColumns(self, symbol, bytes, symbols, row, column + 4,
                          ws.new_line, w \o ws.w, emitted \o Offsets(at, 4))
        ELSE IF literal.outcome # "ok"
        THEN [ret |-> literal, w |-> w, data_directive |-> data_directive,
              emitted |-> emitted]
        ELSE WriteColumns(self, symbol, bytes, symbols, row, column + ElementSize(self),
                          TRUE, w \o literal.val, emitted \o Offsets(at, read))

\* write_assembly, the outer loop: the rows from offset row on
RECURSIVE WriteRows(_, _, _, _, _, _, _)
WriteRows(self, symbol, bytes, symbols, row, w, emitted) ==
    IF row >= Len(bytes) THEN [ret |-> Returned(TRUE), w |-> w, emitted |-> emitted]
    ELSE LET cols == WriteColumns(self, symbol, bytes, symbols, row, 0, FALSE, w, emitted)
         IN  IF cols.ret.outcome # "ok"
             THEN [ret |-> cols.ret, w |-> cols.w, emitted |-> cols.emitted]
             ELSE WriteRows(self, symbol, bytes, symbols, row + RowWidth,
                            IF cols.data_directive THEN cols.w \o <<"\n">> ELSE cols.w,
                            cols.emitted)

\* mutant: the size test is left out
WriteAssemblyUnchecked(self, symbol, bytes, symbols) ==
    WriteRows(self, symbol, bytes, symbols, 0, <<>>, <<>>)

\* SymData::write_assembly: the outcome and the text written
WriteAssembly(self, symbol, bytes, symbols) ==
    IF DataSize(self).some /\ Len(bytes) < DataSize(self).val
    THEN [ret |-> Failed("Not enough bytes to write raw data directive"), w |-> <<>>,
          emitted |-> <<>>]
    ELSE WriteRows(self, symbol, bytes, symbols, 0, <<>>, <<>>)

\* ---------------------------------------------------------------- lcf

\* format!("{}", n) and format!("{:03}", n) on an unsigned integer
DecDigit(d) == <<"0", "1", "2", "3", "4", "5", "6", "7", "8", "9">>[d + 1]
RECURSIVE Dec(_)
Dec(n) == IF n < 10 THEN <<DecDigit(n)>> ELSE Dec(n \div 10) \o <<DecDigit(n % 10)>>
Dec03(n) == [i \in 1..(IF Len(Dec(n)) < 3 THEN 3 - Len(Dec(n)) ELSE 0) |-> "0"] \o Dec(n)

\* format!("OV{:03}", id)
OvMemoryName(id) == <<"OV">> \o Dec03(id)

\* a path as display() writes it: its components joined by `/`
RECURSIVE DisplayPath(_)
DisplayPath(path) ==
    IF Len(path) = 0 THEN <<>>
    ELSE IF Len(path) = 1 THEN path
    ELSE <<path[1], "/">> \o DisplayPath(Tail(path))

\* config_dir.normalize_join(object)?.strip_prefix_ext(build_path)?: the object
\* path below the build path, or an error when it is not below it
RelativeToBuild(object, build_path) ==
    IF Len(object) >= Len(build_path) /\ SubSeq(object, 1, Len(build_path)) = build_path
    THEN Ok(SubSeq(object, Len(build_path) + 1, Len(object)))
    ELSE Err("StripPrefix")

\* iter().find(|x| pred): the first position of s whose element has the key, 0 if none
FindBy(s, field, key) ==
    LET at == {i \in 1..Len(s) : s[i][field] = key}
    IN  IF at = {} THEN 0 ELSE CHOOSE i \in at : \A j \in at : i <= j

\* write_memory_section: the lines of the autoloads from position i on
RECURSIVE AutoloadLines(_, _, _, _, _)
AutoloadLines(autoloads, i, config, build_path, w) ==
    IF i > Len(autoloads) THEN [ret |-> Returned(TRUE), w |-> w]
    ELSE LET autoload == autoloads[i]
             found == FindBy(config.autoloads, "kind", autoload.kind)
             object == RelativeToBuild(config.autoloads[found].module.object, build_path)
         IN  IF autoload.kind \notin {"itcm", "dtcm"}
             THEN [ret |-> Failed("Unknown autoload kind"), w |-> w]
             ELSE IF found = 0
             THEN [ret |-> Panicked("unwrap on None: autoload config"), w |-> w]
             ELSE IF ~object.ok
             THEN [ret |-> Failed(object.err), w |-> w]
             ELSE AutoloadLines(autoloads, i + 1, config, build_path,
                      w \o <<"    ", IF autoload.kind = "itcm" THEN "ITCM" ELSE "DTCM",
                             " : ORIGIN = ">> \o Hex(autoload.base_address)
                        \o <<" > ">> \o DisplayPath(object.val) \o <<"\n">>)

\* mutant: the list names the overlays of the group itself
AfterListOfGroup(group) ==
    IF Len(group.overlays) = 0 THEN <<"ARM9">>
    ELSE LET RECURSIVE names(_)
             names(i) == IF i > Len(group.overlays) THEN <<>>
                         ELSE (IF i > 1 THEN <<",">> ELSE <<>>)
                              \o OvMemoryName(group.overlays[i]) \o names(i + 1)
         IN  names(1)

\* write_memory_section: the argument list of AFTER(...)
AfterList(group) ==
    IF Len(group.after) = 0 THEN <<"ARM9">>
    ELSE LET RECURSIVE names(_)
             names(i) == IF i > Len(group.after) THEN <<>>
                         ELSE (IF i > 1 THEN <<",">> ELSE <<>>)
                              \o OvMemoryName(group.after[i]) \o names(i + 1)
         IN  names(1)

\* write_memory_section: the lines of the overlays of a group from position j on
RECURSIVE GroupLines(_, _, _, _, _, _)
GroupLines(group, j, rom, config, build_path, w) ==
    IF j > Len(group.overlays) THEN [ret |-> Returned(TRUE), w |-> w]
    ELSE LET overlay_id == group.overlays[j]
             found == FindBy(config.overlays, "id", overlay_id)
             object == RelativeToBuild(config.overlays[found].module.object, build_path)
         IN  IF overlay_id + 1 > Len(rom.arm9_overlays)
             THEN [ret |-> Panicked("index out of bounds"), w |-> w]
             ELSE LET line == <<"    ">> \o OvMemoryName(rom.arm9_overlays[overlay_id + 1].id)
                              \o <<" : ORIGIN = AFTER(">> \o AfterList(group)
                  IN  IF found = 0
                      THEN [ret |-> Panicked("unwrap on None: overlay config"),
                            w |-> w \o line]
                      ELSE IF ~object.ok
                      THEN [ret |-> Failed(object.err), w |-> w \o line]
                      ELSE GroupLines(group, j + 1, rom, config, build_path,
                               w \o line \o <<") > ">> \o DisplayPath(object.val)
                                 \o <<"\n">>)

\* write_memory_section: the lines of the groups from position i on
RECURSIVE OverlayGroupLines(_, _, _, _, _, _)
OverlayGroupLines(overlay_groups, i, rom, config, build_path, w) ==
    IF i > Len(overlay_groups) THEN [ret |-> Returned(TRUE), w |-> w]
    ELSE LET lines == GroupLines(overlay_groups[i], 1, rom, config, build_path, w)
         IN  IF lines.ret.outcome # "ok" THEN lines
             ELSE OverlayGroupLines(overlay_groups, i + 1, rom, config, build_path, lines.w)

\* Lcf::write_memory_section: the outcome and the text written to lcf
WriteMemorySection(rom, overlay_groups, config, build_path) ==
    LET arm9_bin == RelativeToBuild(config.main_module.object, build_path)
        head == <<"MEMORY {", "\n">>
        arm9 == head \o <<"    ARM9 : ORIGIN = ">> \o Hex(rom.arm9_base_address)
                \o <<" > ">> \o DisplayPath(arm9_bin.val) \o <<"\n">>
        autoloads == AutoloadLines(rom.autoloads, 1, config, build_path, arm9)
        groups == OverlayGroupLines(overlay_groups, 1, rom, config, build_path, autoloads.w)
    IN  IF ~arm9_bin.ok THEN [ret |-> Failed(arm9_bin.err), w |-> head]
        ELSE IF autoloads.ret.outcome # "ok" THEN autoloads
        ELSE IF groups.ret.outcome # "ok" THEN groups
        ELSE [ret |-> Returned(TRUE), w |-> groups.w \o <<"}", "\n", "\n">>]

\* the orders of the stored sections that ascend by start address
AscendingOrders(secs) ==
    {[i \in 1..Len(secs) |-> secs[p[i]]] :
        p \in {q \in [1..Len(secs) -> 1..Len(secs)] :
                  /\ \A i, j \in 1..Len(secs) : i # j => q[i] # q[j]
                  /\ \A i, j \in 1..Len(secs) :
                         i < j => secs[q[i]].start_address <= secs[q[j]].start_address}}

\* mutant: the sections in the order they are stored
StoredOrder(secs) == secs

\* Sections::sorted_by_address
SortedByAddress(secs) == CHOOSE order \in AscendingOrders(secs) : TRUE

\* Section::boundary_name
BoundaryName(name) ==
    CASE name = ".text" -> "text"
      [] name = ".data" -> "data"
      [] name = ".bss" -> "bss"
      [] OTHER -> name

\* the match on module_kind at the top of write_module_section
ModuleAndMemoryName(module_kind) ==
    CASE module_kind.t = "arm9" -> Some([module_name |-> <<".arm9">>, memory_name |-> <<"ARM9">>])
      [] module_kind.t = "overlay" ->
             Some([module_name |-> <<".ov">> \o Dec03(module_kind.id),
                   memory_name |-> <<"OV">> \o Dec03(module_kind.id)])
      [] module_kind.t = "autoload" /\ module_kind.kind = "itcm" ->
             Some([module_name |-> <<".itcm">>, memory_name |-> <<"ITCM">>])
      [] module_kind.t = "autoload" /\ module_kind.kind = "dtcm" ->
             Some([module_name |-> <<".dtcm">>, memory_name |-> <<"DTCM">>])
      [] OTHER -> None

\* write_module_section: the FILE.o(.sec) lines of a section, from file i on
RECURSIVE FileLines(_, _, _)
FileLines(files, i, section) ==
    IF i > Len(files) THEN <<>>
    ELSE LET file == files[i]
             file_path == file.path
             file_name == file_path[Len(file_path)]
         IN  (IF ~ByName(file.sections.sections, file.sections.sections_by_name,
                         section.name).some
              THEN <<>>
              ELSE <<"        ", file_name, ".o(", section.name, ")", "\n">>)
             \o FileLines(files, i + 1, section)

\* write_module_section: the lines of the sections from position i of the order on
RECURSIVE SectionLines(_, _, _, _)
SectionLines(order, i, files, memory_name) ==
    IF i > Len(order) THEN <<>>
    ELSE LET section == order[i]
             section_boundary_name == BoundaryName(section.name)
         IN  <<"        . = ALIGN(">> \o Dec(section.alignment) \o <<");", "\n">>
             \o <<"        ">> \o memory_name \o <<"_", section_boundary_name, "_START = .;", "\n">>
             \o FileLines(files, 1, section)
             \o <<"        ">> \o memory_name \o <<"_", section_boundary_name, "_END = .;", "\n">>
             \o SectionLines(order, i + 1, files, memory_name)

\* mutant: every file is listed below the build path
ObjectBasePathBuild(file, build_path, delinks_path) == build_path

\* write_module_section: the base path of a file's line in the object list
ObjectBasePath(file, build_path, delinks_path) ==
    IF file.complete THEN build_path ELSE delinks_path

\* write_module_section: the lines of the object list, from file i on
RECURSIVE ObjectLines(_, _, _, _)
ObjectLines(files, i, build_path, delinks_path) ==
    IF i > Len(files) THEN <<>>
    ELSE DisplayPath(ObjectBasePath(files[i], build_path, delinks_path) \o files[i].path)
         \o <<".o", "\n">> \o ObjectLines(files, i + 1, build_path, delinks_path)

\* Lcf::write_module_section: the outcome and the text appended to lcf and objects
WriteModuleSection(module, module_kind, build_path, delinks_path) ==
    LET names == ModuleAndMemoryName(module_kind)
        head == <<"    ">> \o names.val.module_name \o <<" : {", "\n">>
        delinks == module.delinks
    IN  IF ~names.some
        THEN [ret |-> Failed("Unknown autoload kind"), lcf |-> <<>>, objects |-> <<>>]
        ELSE IF ~delinks.some
        THEN [ret |-> Failed("Delinks::from_file"), lcf |-> head, objects |-> <<>>]
        ELSE [ret |-> Returned(TRUE),
              lcf |-> head
                      \o SectionLines(SortedByAddress(delinks.val.sections.sections), 1,
                                      delinks.val.files, names.val.memory_name)
                      \o <<"    } > ">> \o names.val.memory_name \o <<"\n", "\n">>,
              objects |-> ObjectLines(delinks.val.files, 1, build_path, delinks_path)]

\* the modules of a config in the order write_sections_section visits them
ConfigModules(config) ==
    <<[module |-> config.main_module, kind |-> [t |-> "arm9"]]>>
    \o [i \in 1..Len(config.autoloads) |->
           [module |-> config.autoloads[i].module,
            kind |-> [t |-> "autoload", kind |-> config.autoloads[i].kind]]]
    \o [i \in 1..Len(config.overlays) |->
           [module |-> config.overlays[i].module,
            kind |-> [t |-> "overlay", id |-> config.overlays[i].id]]]

\* write_sections_section: the modules from position i on
RECURSIVE ModuleSections(_, _, _, _, _, _)
ModuleSections(modules, i, build_path, delinks_path, lcf_text, objects_text) ==
    IF i > Len(modules)
    THEN [ret |-> Returned(TRUE), lcf |-> lcf_text, objects |-> objects_text]
    ELSE LET one == WriteModuleSection(modules[i].module, modules[i].kind,
                                       build_path, delinks_path)
         IN  IF one.ret.outcome # "ok"
             THEN [ret |-> one.ret, lcf |-> lcf_text \o one.lcf,
                   objects |-> objects_text \o one.objects]
             ELSE ModuleSections(modules, i + 1, build_path, delinks_path,
                                 lcf_text \o one.lcf, objects_text \o one.objects)

\* Lcf::write_sections_section: the outcome and the text written to lcf and objects
WriteSectionsSection(config, build_path, delinks_path) ==
    LET written == ModuleSections(ConfigModules(config), 1, build_path, delinks_path,
                                  <<"SECTIONS {", "\n">>, <<>>)
    IN  IF written.ret.outcome # "ok" THEN written
        ELSE [written EXCEPT !.lcf = @ \o <<"}", "\n", "\n">>]

\* Lcf::write_keep_section_section: the text written to lcf
WriteKeepSectionSection ==
    <<"KEEP_SECTION {", "\n", "    .init,", "\n", "    .ctor", "\n", "}", "\n", "\n">>

\* Lcf::run from the first writer call on: the outcome and the text written to
\* lcf and objects
LcfRun(rom, overlay_groups, config, build_path, delinks_path) ==
    LET memory == WriteMemorySection(rom, overlay_groups, config, build_path)
        written  == WriteSectionsSection(config, build_path, delinks_path)
    IN  IF memory.ret.outcome # "ok"
        THEN [ret |-> memory.ret, lcf |-> memory.w, objects |-> <<>>]
        ELSE [ret |-> written.ret,
              lcf |-> memory.w \o WriteKeepSectionSection \o written.lcf,
              objects |-> written.objects]

\* ---------------------------------------------------------------- dis command

\* the modules in the order run visits them: ARM9, the autoloads, the overlays
RunOrder(config) ==
    <<[t |-> "arm9"]>>
    \o [i \in 1..Len(config.autoloads) |-> [t |-> "autoload", kind |-> config.autoloads[i]]]
    \o [i \in 1..Len(config.overlays) |-> [t |-> "overlay", id |-> config.overlays[i]]]

\* mutant: an error is dropped and the command goes on
AfterStepRecover(ok, next) == next

\* the `?` after a step: on an error the function returns it
AfterStep(ok, next) == IF ok THEN next ELSE "return"

\* what run has done so far: one entry per step, with its module, whether it
\* succeeded, and whether it changed a symbol map of the registry
Event(step, module, ok, mutated) ==
    [step |-> step, module |-> module, ok |-> ok, mutated |-> mutated]

\* ---------------------------------------------------------------- disassemble

\* values per `.byte` line of dump_bytes
DumpWidth == 16

Min(a, b) == IF a < b THEN a ELSE b

\* a - b on u32 (wrapping when b > a)
SubU32(a, b) == AsU32(a - b)

\* mutant: the next symbol's address is not clamped to the section's end
SizeToNextUnclamped(section, symbol, next) ==
    IF next.some
    THEN SubU32(next.val.addr, symbol.addr)
    ELSE SubU32(section.end_address, symbol.addr)

\* Disassemble::size_to_next_symbol
SizeToNextSymbol(section, symbol, next) ==
    IF next.some
    THEN SubU32(Min(next.val.addr, section.end_address), symbol.addr)
    ELSE SubU32(section.end_address, symbol.addr)

\* Disassemble::dump_bytes: the `.byte` lines, each the offsets of the bytes on it
RECURSIVE DumpBytes(_, _)
DumpBytes(from, end_offset) ==
    IF from < end_offset
    THEN LET n == Min(DumpWidth, end_offset - from)
         IN  <<[i \in 1..n |-> from + i - 1]>> \o DumpBytes(from + n, end_offset)
    ELSE <<>>

\* mutant: every line has DumpWidth values
ByteLineFull(from, end_offset) == [i \in 1..DumpWidth |-> from + i - 1]

\* Disassemble::dump_bytes, one pass of the outer loop: the values of one line
ByteLine(from, end_offset) ==
    [i \in 1..Min(DumpWidth, end_offset - from) |-> from + i - 1]

\* the values of all lines, in output order
RECURSIVE Flatten(_)
Flatten(lines) == IF lines = <<>> THEN <<>> ELSE Head(lines) \o Flatten(Tail(lines))

\* the bytes at section offsets [from, to) as a function body or a data
\* directive stream denotes them
CodeBytes(from, to) == [i \in 1..(to - from) |-> from + i - 1]

\* the bytes `.space n` denotes (-1: a byte without content)
Space(n) == [i \in 1..n |-> 0 - 1]

\* section.code_from_module: bytes for initialized sections, None for bss
HasCode(section) == section.kind # "bss"

\* symbol_iter.peek() after the symbol at position i was taken
Peek(symbols, i) == IF i + 1 <= Len(symbols) THEN Some(symbols[i + 1]) ELSE None

\* the test at the top of the loop body
InSection(section, symbol) ==
    ~(symbol.addr < section.start_address \/ symbol.addr >= section.end_address)

\* size of a data or bss symbol: declared, else up to the next symbol
SymbolSize(section, symbols, i) ==
    IF symbols[i].size.some THEN symbols[i].size.val
    ELSE SizeToNextSymbol(section, symbols[i], Peek(symbols, i))

\* ---------------------------------------------------------------- inputs

\* every section Section::new can return over the bounded inputs
ValidSections ==
    {SectionNew(n, k, s, e, a).val : <<n, k, s, e, a>> \in
        {t \in Names \X Kinds \X Addrs \X Addrs \X Aligns :
            SectionNew(t[1], t[2], t[3], t[4], t[5]).ok}}

\* the kind a delinks header gives each section name
HeaderKind(name) ==
    CASE name = ".text" -> "code"
      [] name = ".data" -> "data"
      [] OTHER -> "bss"

\* the sections handed to Sections::add
HeaderSections == {s \in ValidSections : s.kind = HeaderKind(s.name)}

\* ---- the symbol maps, registries and relocation tables the lookup runs on

MaxAddend == 1
Addends == (0 - MaxAddend)..MaxAddend
Sources == {0, 1}
Indent == "    "

Fn(name, addr) == [name |-> name, addr |-> addr, kind |-> "function", size |-> 2]
Lbl(name, addr) == [name |-> name, addr |-> addr, kind |-> "label", size |-> 0]

LocalMaps == {{}} \cup {{Fn("loc", a)} : a \in Addrs}
Ov5Maps == {{Fn("foo", a)} : a \in Addrs}
           \cup {{Fn("foo", a), Lbl("foo_l", a + 1)} : a \in 0..(MaxAddr - 1)}
Ov7Maps == {{Fn("bar", a)} : a \in Addrs}
Ov8Maps == {{Fn("baz", 0)}}

\* a module that has a symbol map, or has none
Choices(maps) == {None} \cup {Some(m) : m \in maps}

\* the registry holding the local map and the chosen external maps
Registry(local, c5, c7, c8) ==
    LET present == {LocalModule}
                   \cup (IF c5.some THEN {"ov5"} ELSE {})
                   \cup (IF c7.some THEN {"ov7"} ELSE {})
                   \cup (IF c8.some THEN {"ov8"} ELSE {})
    IN  [m \in present |->
            CASE m = "ov5" -> c5.val
              [] m = "ov7" -> c7.val
              [] m = "ov8" -> c8.val
              [] OTHER -> local]

NoMaps == Registry({}, None, None, None)

\* the target-module descriptors of a relocation
RelocationModules ==
    { [kind |-> "none"],
      [kind |-> "single", module |-> LocalModule],
      [kind |-> "single", module |-> "ov5"],
      [kind |-> "overlays", ids |-> <<"ov5", "ov7">>],
      [kind |-> "overlays", ids |-> <<"ov5", "ov7", "ov8">>] }

NoRelocations == [s \in {} |-> None]

\* no relocation, or one relocation at source address 0
RelocationTables ==
    {NoRelocations}
    \cup {[s \in {0} |-> [from |-> 0, to_address |-> to, addend |-> ad, module |-> m]] :
             <<to, ad, m>> \in Addrs \X Addends \X RelocationModules}


\* ---- the sections and symbol maps disassemble runs on

MaxDisAddr == 3
MaxSyms == 2
DeclaredSizes == {1, 2}

DisAddrs == 0..MaxDisAddr

DisSections ==
    {[start_address |-> s, end_address |-> e, kind |-> k] :
        <<s, e, k>> \in {x \in (0..1) \X DisAddrs \X {"code", "bss"} : x[1] <= x[2]}}

\* the symbols a map can hold at one address
SymbolsAt(addr) ==
    {[addr |-> addr, kind |-> "function", size |-> Some(n)] : n \in DeclaredSizes}
    \cup {[addr |-> addr, kind |-> k, size |-> sz] :
             <<k, sz>> \in {"data", "bss"} \X ({None} \cup {Some(n) : n \in DeclaredSizes})}
    \cup {[addr |-> addr, kind |-> "label", size |-> None]}

\* symbol maps in iteration order: ascending addresses
RECURSIVE SymbolLists(_, _)
SymbolLists(from, n) ==
    {<<>>} \cup
    (IF n = 0 THEN {}
     ELSE UNION {{<<s>> \o rest : <<s, rest>> \in SymbolsAt(a) \X SymbolLists(a + 1, n - 1)} :
                    a \in from..MaxDisAddr})

\* ---- the data symbols, bytes and lookups write_assembly runs on

MaxBytes == 5
ByteValues == {0, 1, 18}
DataAddrs == {0, 1}

ByteStrings == UNION {[1..n -> ByteValues] : n \in 0..MaxBytes}

\* byte strings longer than a row: zeros, with the word 1 (the address the
\* lookups resolve) stored little-endian at one offset near the end of the
\* first row
LongBytes ==
    {[i \in 1..n |-> IF i = p + 1 THEN 1 ELSE 0] :
        <<n, p>> \in {<<n, p>> \in (RowWidth..(RowWidth + MaxBytes))
                                    \X ((RowWidth - 4)..(RowWidth + MaxBytes)) :
                         p + 4 <= n}}

SymDatas ==
    {[variant |-> "any", size |-> None]}
    \cup {[variant |-> v, size |-> sz] :
             <<v, sz>> \in {"byte", "short", "word"}
                           \X ({None} \cup {Some(n) : n \in 0..(MaxBytes + 1)})}

DataSymbols == {[name |-> "data", addr |-> a, kind |-> "data", size |-> 0] : a \in DataAddrs}

\* a lookup that resolves nothing, one with a local symbol at address 1, and one
\* with a relocation at source 0 to a function at address 1 of another module
NoSymbols == [symbol_map |-> {}, symbol_maps |-> NoMaps, relocations |-> NoRelocations]
DataLookups ==
    { NoSymbols,
      [symbol_map |-> {Lbl("ptr", 1)},
       symbol_maps |-> Registry({Lbl("ptr", 1)}, None, None, None),
       relocations |-> NoRelocations],
      [symbol_map |-> {},
       symbol_maps |-> Registry({}, Some({Fn("foo", 1)}), None, None),
       relocations |-> [s \in {0} |-> [from |-> 0, to_address |-> 1, addend |-> 0,
                                       module |-> [kind |-> "single", module |-> "ov5"]]]] }

\* ---- the lines and header tables Section::parse and parse_inherit run on

MaxAttrs == 4

\* iter_attributes(words): the key:value words of a line, in order
AttributeWords ==
    {[key |-> "kind", value |-> v] : v \in {"code", "zz"}}
    \cup {[key |-> "start", value |-> v] : v \in {"0x0", "1", "zz"}}
    \cup {[key |-> "end", value |-> v] : v \in {"0x2", "0"}}
    \cup {[key |-> "align", value |-> v] : v \in {"2", "3"}}
    \cup {[key |-> "size", value |-> "0"]}

\* a line: its first word, if any, and its attributes
Lines ==
    {[name |-> n, attributes |-> a] :
        <<n, a>> \in {None, Some(".text"), Some(".data")}
                     \X UNION {[1..k -> AttributeWords] : k \in 0..MaxAttrs}}

TextHeader == SectionNew(".text", "code", 0, 2, 2).val
DataHeader == SectionNew(".data", "data", 2, 4, 1).val

\* the section table of a header holding .text only, and of one holding .data
\* and then .text
HeaderTables ==
    { SectionsAdd(SectionsNew.sections, SectionsNew.sections_by_name, TextHeader),
      LET first == SectionsAdd(SectionsNew.sections, SectionsNew.sections_by_name, DataHeader)
      IN  SectionsAdd(first.sections, first.sections_by_name, TextHeader) }

\* ---- the ROMs, overlay groups, configs and delinks the lcf command runs on

MaxOverlay == 2
MaxFiles == 2

BuildPath == <<"build">>
DelinksPath == <<"config", "delinks">>

OverlayIds == 0..MaxOverlay

\* sequences of one or two distinct overlay ids
IdLists == {<<a>> : a \in OverlayIds}
           \cup {<<a, b>> : <<a, b>> \in {x \in OverlayIds \X OverlayIds : x[1] # x[2]}}

\* OverlayGroups::analyze: the groups, each with its overlays and its `after`
\* list; no overlay is in two groups
OverlayGroup == {[overlays |-> o, after |-> a] : <<o, a>> \in IdLists \X ({<<>>} \cup IdLists)}
OverlayGroupLists ==
    {<<>>} \cup {<<g>> : g \in OverlayGroup}
    \cup {<<g, h>> : <<g, h>> \in
             {x \in OverlayGroup \X OverlayGroup :
                 \A i \in 1..Len(x[1].overlays), j \in 1..Len(x[2].overlays) :
                     x[1].overlays[i] # x[2].overlays[j]}}

\* a ROM: the ARM9 program, its autoloads, and its overlay table indexed by id
Roms ==
    {[arm9_base_address |-> 33554432, autoloads |-> a,
      arm9_overlays |-> [i \in 1..(MaxOverlay + 1) |-> [id |-> i - 1]]] :
        a \in { <<>>,
                <<[kind |-> "itcm", base_address |-> 16777216],
                  [kind |-> "dtcm", base_address |-> 41943040]>>,
                <<[kind |-> "unknown", base_address |-> 0]>> }}

\* the section tables of a file: .text, .data, or both
FileTables ==
    LET text == SectionInherit(TextHeader, 0, 2).val
        data == SectionInherit(DataHeader, 2, 3).val
        one(s) == SectionsAdd(SectionsNew.sections, SectionsNew.sections_by_name, s)
    IN  {one(text), one(data),
         SectionsAdd(one(text).sections, one(text).sections_by_name, data)}

\* the files of a delinks file: path without extension, sections, completeness
DelinkFiles ==
    {[path |-> p, ext |-> "c", sections |-> [sections |-> s.sections,
                                              sections_by_name |-> s.sections_by_name],
      complete |-> c] :
        <<p, s, c>> \in {<<"main">>, <<"src", "util">>} \X FileTables \X BOOLEAN}

\* Delinks::from_file: the header's section table and the files, or an error
DelinksOf(files) ==
    {Some([sections |-> [sections |-> h.sections, sections_by_name |-> h.sections_by_name],
           files |-> f]) : <<h, f>> \in HeaderTables \X files}
AllDelinks == {None} \cup DelinksOf(UNION {[1..k -> DelinkFiles] : k \in 0..MaxFiles})
FewDelinks == DelinksOf({<<f>> : f \in {g \in DelinkFiles : g.path = <<"main">> /\ ~g.complete}})

ModuleOf(name, delinks) == [object |-> <<"build", name, "module.bin">>, delinks |-> delinks]

\* the config of a ROM whose overlays are listed last to first
MemoryConfig ==
    [main_module |-> ModuleOf("arm9", None),
     autoloads |-> <<[kind |-> "dtcm", module |-> ModuleOf("dtcm", None)],
                     [kind |-> "itcm", module |-> ModuleOf("itcm", None)]>>,
     overlays |-> [i \in 1..(MaxOverlay + 1) |->
                      [id |-> MaxOverlay + 1 - i,
                       module |-> ModuleOf(DecDigit(MaxOverlay + 1 - i), None)]]]

\* configs of a main module, at most one autoload and at most one overlay
SectionConfigs ==
    {[main_module |-> ModuleOf("arm9", m), autoloads |-> a, overlays |-> o] :
        <<m, a, o>> \in
            AllDelinks
            \X ({<<>>} \cup {<<[kind |-> k, module |-> ModuleOf("autoload", d)]>> :
                                <<k, d>> \in {"itcm", "unknown"}
                                             \X {CHOOSE x \in FewDelinks : TRUE}})
            \X ({<<>>} \cup {<<[id |-> 1, module |-> ModuleOf("ov001", d)]>> :
                                d \in FewDelinks})}

\* the ROMs the lcf command runs on: no autoloads, both, or one of unknown
\* kind, and the first n overlays
RunRoms ==
    {[arm9_base_address |-> 33554432, autoloads |-> a,
      arm9_overlays |-> [i \in 1..n |-> [id |-> i - 1]]] :
        <<a, n>> \in { <<>>,
                       <<[kind |-> "itcm", base_address |-> 16777216],
                         [kind |-> "dtcm", base_address |-> 41943040]>>,
                       <<[kind |-> "unknown", base_address |-> 0]>> }
                     \X (0..(MaxOverlay + 1))}

\* OverlayGroups::analyze on a ROM's overlays: a partition of them, here every
\* overlay in a group of its own after the one before, or all in one group
AnalyzeResults(rom) ==
    LET n == Len(rom.arm9_overlays)
    IN  { [i \in 1..n |-> [overlays |-> <<i - 1>>,
                           after |-> IF i = 1 THEN <<>> ELSE <<i - 2>>]],
          IF n = 0 THEN <<>>
          ELSE <<[overlays |-> [i \in 1..n |-> i - 1], after |-> <<>>]>> }

\* the configs the lcf command runs on: a main module, no autoload, ITCM, or
\* DTCM and ITCM, and the first k overlays
RunLcfConfigs ==
    LET d == CHOOSE x \in FewDelinks : TRUE
    IN  {[main_module |-> ModuleOf("arm9", d), autoloads |-> a,
          overlays |-> [i \in 1..k |-> [id |-> i - 1, module |-> ModuleOf("overlay", d)]]] :
            <<a, k>> \in { <<>>,
                           <<[kind |-> "itcm", module |-> ModuleOf("itcm", d)]>>,
                           <<[kind |-> "dtcm", module |-> ModuleOf("dtcm", d)],
                             [kind |-> "itcm", module |-> ModuleOf("itcm", d)]>> }
                         \X (0..(MaxOverlay + 1))}

\* ---- the configs the dis command runs on

MaxAutoloads == 2

RunConfigs ==
    {[autoloads |-> [i \in 1..a |-> IF i = 1 THEN "itcm" ELSE IF i = 2 THEN "dtcm"
                                     ELSE "unknown"],
      overlays |-> [i \in 1..o |-> i - 1]] :
        <<a, o>> \in (0..MaxAutoloads) \X (0..(MaxOverlay + 1))}

\* ---- the ranges dump_bytes runs on

MaxDumpLen == 34
DumpStarts == {0, 1}

\* ---------------------------------------------------------------- states

SectionIdle == call = NoCall /\ made = NoCall
TableIdle == sections = SectionsNew.sections
             /\ sections_by_name = SectionsNew.sections_by_name
             /\ last = NoCall
OrderIdle == attempted = {} /\ failed = FALSE
LookupIdle == symbol_map = {} /\ symbol_maps = NoMaps /\ relocations = NoRelocations
              /\ lk = NoCall
DisIdle == dis_section = NoCall /\ dis_symbols = <<>> /\ dis_next = 1 /\ offset = 0
           /\ out = <<>> /\ labels = <<>> /\ dis_pc = "idle"
RestIdle == wa = NoCall /\ ps = NoCall /\ lcf = NoCall /\ run = NoCall /\ db = NoCall
CoreIdle == SectionIdle /\ TableIdle /\ OrderIdle /\ LookupIdle /\ DisIdle

\* ---------------------------------------------------------------- SectionSpec

\* a call of Section::new
New(name, kind, start_address, end_address, alignment) ==
    /\ made = NoCall
    /\ call' = [fn |-> "new", name |-> name, kind |-> kind, start |-> start_address,
                end |-> end_address, alignment |-> alignment]
    /\ made' = SectionNew(name, kind, start_address, end_address, alignment)
    /\ UNCHANGED <<tableVars, orderVars, lookupVars, disVars, restVars>>

\* a call of Section::inherit on the section made last
Inherit(start_address, end_address) ==
    /\ made # NoCall
    /\ made.ok
    /\ call' = [fn |-> "inherit", name |-> made.val.name, kind |-> made.val.kind,
                start |-> start_address, end |-> end_address,
                alignment |-> made.val.alignment]
    /\ made' = SectionInherit(made.val, start_address, end_address)
    /\ UNCHANGED <<tableVars, orderVars, lookupVars, disVars, restVars>>

\* the result is dropped
Drop ==
    /\ made # NoCall
    /\ call' = NoCall
    /\ made' = NoCall
    /\ UNCHANGED <<tableVars, orderVars, lookupVars, disVars, restVars>>

SectionInit == SectionIdle /\ TableIdle /\ OrderIdle /\ LookupIdle /\ DisIdle /\ RestIdle

SectionNext ==
    \/ \E n \in Names, k \in Kinds, s \in Addrs, e \in Addrs, a \in Aligns :
           New(n, k, s, e, a)
    \/ \E s \in Addrs, e \in Addrs : Inherit(s, e)
    \/ Drop

SectionSpec == SectionInit /\ [][SectionNext]_vars

\* ---------------------------------------------------------------- Spec (table)

\* a call of Sections::add
Add(section) ==
    /\ last = NoCall
    /\ LET r == SectionsAdd(sections, sections_by_name, section)
       IN  /\ sections' = r.sections
           /\ sections_by_name' = r.sections_by_name
           /\ last' = [fn |-> "add", section |-> section, ret |-> r.ret]
    /\ UNCHANGED <<sectionVars, orderVars, lookupVars, disVars, restVars>>

\* a call of Sections::get_by_contained_address
Query(address) ==
    /\ last = NoCall
    /\ last' = [fn |-> "get_by_contained_address", address |-> address,
                ret |-> GetByContainedAddress(sections, address)]
    /\ UNCHANGED <<sections, sections_by_name, sectionVars, orderVars, lookupVars, disVars, restVars>>

\* the caller takes the returned value
Return ==
    /\ last # NoCall
    /\ last' = NoCall
    /\ UNCHANGED <<sections, sections_by_name, sectionVars, orderVars, lookupVars, disVars, restVars>>

Init == SectionIdle /\ TableIdle /\ OrderIdle /\ LookupIdle /\ DisIdle /\ RestIdle

Next ==
    \/ \E s \in HeaderSections : Add(s)
    \/ \E a \in Addrs : Query(a)
    \/ Return

Spec == Init /\ [][Next]_vars

\* ---------------------------------------------------------------- OrderSpec

\* Sections::add called with one more section of a set, in any order
OrderAdd(section) ==
    /\ section \notin attempted
    /\ Cardinality(attempted) < MaxSet
    /\ LET r == SectionsAdd(sections, sections_by_name, section)
       IN  /\ sections' = r.sections
           /\ sections_by_name' = r.sections_by_name
           /\ failed' = (failed \/ ~r.ret.ok)
    /\ attempted' = attempted \cup {section}
    /\ UNCHANGED <<last, sectionVars, lookupVars, disVars, restVars>>

OrderInit == SectionIdle /\ TableIdle /\ OrderIdle /\ LookupIdle /\ DisIdle /\ RestIdle

\* add reads names and address ranges only: one alignment is enough
OrderSections == {s \in HeaderSections : s.alignment = 1}

OrderNext == \E s \in OrderSections : OrderAdd(s)

OrderSpec == OrderInit /\ [][OrderNext]_vars

\* ---------------------------------------------------------------- LookupSpec

\* a call of SymbolLookup::write_symbol
CallWriteSymbol(source, destination, new_line) ==
    /\ lk = NoCall
    /\ LET r == WriteSymbol(symbol_map, symbol_maps, relocations,
                            source, destination, new_line, Indent)
       IN  lk' = [fn |-> "write_symbol", source |-> source, destination |-> destination,
                  new_line_in |-> new_line, ret |-> r.ret, w |-> r.w,
                  new_line |-> r.new_line]
    /\ UNCHANGED <<symbol_map, symbol_maps, relocations, sectionVars, tableVars, orderVars, disVars, restVars>>

\* a call of SymbolLookup::write_ambiguous_symbols_comment
CallWriteComment(source, destination) ==
    /\ lk = NoCall
    /\ LET r == WriteAmbiguousSymbolsComment(symbol_maps, relocations, source, destination)
       IN  lk' = [fn |-> "write_ambiguous_symbols_comment", source |-> source,
                  destination |-> destination, ret |-> r.ret, w |-> r.w]
    /\ UNCHANGED <<symbol_map, symbol_maps, relocations, sectionVars, tableVars, orderVars, disVars, restVars>>

\* a call of SymbolLookup::lookup_symbol_name
CallLookupSymbolName(source, destination) ==
    /\ lk = NoCall
    /\ lk' = [fn |-> "lookup_symbol_name", source |-> source,
              destination |-> destination,
              ret |-> LookupSymbolName(symbol_map, symbol_maps, relocations,
                                       source, destination)]
    /\ UNCHANGED <<symbol_map, symbol_maps, relocations, sectionVars, tableVars, orderVars, disVars, restVars>>

\* the caller takes the outcome
LookupReturn ==
    /\ lk # NoCall
    /\ lk' = NoCall
    /\ UNCHANGED <<symbol_map, symbol_maps, relocations, sectionVars, tableVars, orderVars, disVars, restVars>>

LookupInit ==
    /\ SectionIdle /\ TableIdle /\ OrderIdle /\ DisIdle /\ RestIdle
    /\ symbol_map \in LocalMaps
    /\ \E c5 \in Choices(Ov5Maps), c7 \in Choices(Ov7Maps), c8 \in Choices(Ov8Maps) :
           symbol_maps = Registry(symbol_map, c5, c7, c8)
    /\ relocations \in RelocationTables
    /\ lk = NoCall

LookupNext ==
    \/ \E s \in Sources, d \in Addrs, nl \in BOOLEAN : CallWriteSymbol(s, d, nl)
    \/ \E s \in Sources, d \in Addrs : CallWriteComment(s, d)
    \/ \E s \in Sources, d \in Addrs : CallLookupSymbolName(s, d)
    \/ LookupReturn

LookupSpec == LookupInit /\ [][LookupNext]_vars

\* ---------------------------------------------------------------- DisSpec

DisFrame == UNCHANGED <<dis_section, dis_symbols, sectionVars, tableVars, orderVars,
                        lookupVars, restVars>>

Loop(kind) ==
    /\ dis_pc = "symbols"
    /\ dis_next <= Len(dis_symbols)
    /\ InSection(dis_section, dis_symbols[dis_next])
    /\ dis_symbols[dis_next].kind = kind

Panic ==
    /\ dis_pc' = "panic"
    /\ UNCHANGED <<dis_next, offset, out, labels>>

\* the loop body for a symbol outside the section or of another kind
StepSkip ==
    /\ dis_pc = "symbols"
    /\ dis_next <= Len(dis_symbols)
    /\ \/ ~InSection(dis_section, dis_symbols[dis_next])
       \/ dis_symbols[dis_next].kind \notin {"function", "data", "bss"}
    /\ dis_next' = dis_next + 1
    /\ UNCHANGED <<offset, out, labels, dis_pc>>
    /\ DisFrame

\* the loop body for SymbolKind::Function
StepFunction ==
    /\ Loop("function")
    /\ LET symbol == dis_symbols[dis_next]
           function_offset == symbol.addr - dis_section.start_address
           function_end == symbol.addr + symbol.size.val - dis_section.start_address
           gap == IF offset < function_offset
                  THEN Flatten(DumpBytes(offset, function_offset))
                  ELSE <<>>
       IN  IF offset < function_offset /\ ~HasCode(dis_section)
           THEN Panic
           ELSE /\ out' = out \o gap \o CodeBytes(function_offset, function_end)
                /\ labels' = Append(labels, [addr |-> symbol.addr,
                                             pos |-> Len(out) + Len(gap)])
                /\ offset' = function_end
                /\ dis_next' = dis_next + 1
                /\ UNCHANGED dis_pc
    /\ DisFrame

\* the loop body for SymbolKind::Data
StepData ==
    /\ Loop("data")
    /\ LET symbol == dis_symbols[dis_next]
           start == symbol.addr - dis_section.start_address
           size == SymbolSize(dis_section, dis_symbols, dis_next)
           end == start + size
       IN  IF ~HasCode(dis_section) \/ end > SectionSize(dis_section)
           THEN Panic
           ELSE /\ out' = out \o CodeBytes(start, end)
                /\ labels' = Append(labels, [addr |-> symbol.addr, pos |-> Len(out)])
                /\ offset' = end
                /\ dis_next' = dis_next + 1
                /\ UNCHANGED dis_pc
    /\ DisFrame

\* the loop body for SymbolKind::Bss
StepBss ==
    /\ Loop("bss")
    /\ LET symbol == dis_symbols[dis_next]
           size == SymbolSize(dis_section, dis_symbols, dis_next)
       IN  /\ out' = out \o Space(size)
           /\ labels' = Append(labels, [addr |-> symbol.addr, pos |-> Len(out)])
           /\ offset' = offset + size
           /\ dis_next' = dis_next + 1
           /\ UNCHANGED dis_pc
    /\ DisFrame

\* after the loop: the rest of the section
Finish ==
    /\ dis_pc = "symbols"
    /\ dis_next > Len(dis_symbols)
    /\ LET end_offset == SectionSize(dis_section)
       IN  out' = IF offset < end_offset
                  THEN IF HasCode(dis_section)
                       THEN out \o Flatten(DumpBytes(offset, end_offset))
                       ELSE out \o Space(end_offset - offset)
                  ELSE out
    /\ dis_pc' = "done"
    /\ UNCHANGED <<dis_next, offset, labels>>
    /\ DisFrame

DisInit ==
    /\ SectionIdle /\ TableIdle /\ OrderIdle /\ LookupIdle /\ RestIdle
    /\ dis_section \in DisSections
    /\ dis_symbols \in SymbolLists(0, MaxSyms)
    /\ dis_next = 1
    /\ offset = 0
    /\ out = <<>>
    /\ labels = <<>>
    /\ dis_pc = "symbols"

DisNext == StepSkip \/ StepFunction \/ StepData \/ StepBss \/ Finish

DisSpec == DisInit /\ [][DisNext]_vars

\* ---------------------------------------------------------------- DataSpec

CallWriteAssembly ==
    /\ wa = NoCall
    /\ \E self \in SymDatas, symbol \in DataSymbols, bytes \in ByteStrings \cup LongBytes,
          symbols \in DataLookups :
           LET r == WriteAssembly(self, symbol, bytes, symbols)
           IN  wa' = [fn |-> "write_assembly", self |-> self, symbol |-> symbol,
                      bytes |-> bytes, symbols |-> symbols, ret |-> r.ret, w |-> r.w,
                      emitted |-> r.emitted]
    /\ UNCHANGED <<coreVars, ps, lcf, run, db>>

DataReturn ==
    /\ wa # NoCall
    /\ wa' = NoCall
    /\ UNCHANGED <<coreVars, ps, lcf, run, db>>

DataInit == CoreIdle /\ RestIdle

DataNext == CallWriteAssembly \/ DataReturn

DataSpec == DataInit /\ [][DataNext]_vars

\* ---------------------------------------------------------------- ParseSpec

CallParse ==
    /\ ps = NoCall
    /\ \E line \in Lines :
           ps' = [fn |-> "parse", line |-> line, ret |-> SectionParse(line)]
    /\ UNCHANGED <<coreVars, wa, lcf, run, db>>

CallParseInherit ==
    /\ ps = NoCall
    /\ \E line \in Lines, header \in HeaderTables :
           ps' = [fn |-> "parse_inherit", line |-> line,
                  sections |-> header.sections,
                  sections_by_name |-> header.sections_by_name,
                  ret |-> SectionParseInherit(line, header.sections, header.sections_by_name)]
    /\ UNCHANGED <<coreVars, wa, lcf, run, db>>

ParseReturn ==
    /\ ps # NoCall
    /\ ps' = NoCall
    /\ UNCHANGED <<coreVars, wa, lcf, run, db>>

ParseInit == CoreIdle /\ RestIdle

ParseNext == CallParse \/ CallParseInherit \/ ParseReturn

ParseSpec == ParseInit /\ [][ParseNext]_vars

\* ---------------------------------------------------------------- LcfSpec

CallWriteMemorySection ==
    /\ lcf = NoCall
    /\ \E rom \in Roms, overlay_groups \in OverlayGroupLists :
           LET r == WriteMemorySection(rom, overlay_groups, MemoryConfig, BuildPath)
           IN  lcf' = [fn |-> "write_memory_section", rom |-> rom,
                       overlay_groups |-> overlay_groups, config |-> MemoryConfig,
                       ret |-> r.ret, w |-> r.w]
    /\ UNCHANGED <<coreVars, wa, ps, run, db>>

CallWriteSectionsSection ==
    /\ lcf = NoCall
    /\ \E config \in SectionConfigs :
           LET r == WriteSectionsSection(config, BuildPath, DelinksPath)
           IN  lcf' = [fn |-> "write_sections_section", config |-> config,
                       ret |-> r.ret, w |-> r.lcf, objects |-> r.objects]
    /\ UNCHANGED <<coreVars, wa, ps, run, db>>

CallLcfRun ==
    /\ lcf = NoCall
    /\ \E rom \in RunRoms, config \in RunLcfConfigs :
           \E overlay_groups \in AnalyzeResults(rom) :
               LET r == LcfRun(rom, overlay_groups, config, BuildPath, DelinksPath)
               IN  lcf' = [fn |-> "run", rom |-> rom, overlay_groups |-> overlay_groups,
                           config |-> config, ret |-> r.ret, w |-> r.lcf,
                           objects |-> r.objects]
    /\ UNCHANGED <<coreVars, wa, ps, run, db>>

LcfReturn ==
    /\ lcf # NoCall
    /\ lcf' = NoCall
    /\ UNCHANGED <<coreVars, wa, ps, run, db>>

LcfInit == CoreIdle /\ RestIdle

LcfNext == CallWriteMemorySection \/ CallWriteSectionsSection \/ CallLcfRun \/ LcfReturn

LcfSpec == LcfInit /\ [][LcfNext]_vars

\* ---------------------------------------------------------------- RunSpec

RunFrame == UNCHANGED <<coreVars, wa, ps, lcf, db>>

\* run continues with `next`, or returns the error of the step that failed
Continue(step, module, ok, mutated, next, module_index) ==
    LET pc == AfterStep(ok, next)
    IN  run' = [run EXCEPT !.events = Append(@, Event(step, module, ok, mutated)),
                           !.pc = pc,
                           !.module = module_index,
                           !.ret = IF pc = "return"
                                   THEN IF ok THEN Returned(TRUE) ELSE Failed(<<step, module>>)
                                   ELSE @]

\* SymbolMaps::from_config(config_path, &config)?
FromConfig ==
    /\ run # NoCall
    /\ run.pc = "from_config"
    /\ \E ok \in BOOLEAN : Continue("from_config", [t |-> "all"], ok, ok, "load", 1)
    /\ RunFrame

\* disassemble_*: Delinks::from_file, symbol_maps.get_mut, Xrefs::from_file,
\* read_file and Module::new_*, which is handed the module's symbol map mutably
LoadModule ==
    /\ run # NoCall
    /\ run.pc = "load"
    /\ \E ok \in BOOLEAN, mutated \in BOOLEAN :
           Continue("load", RunOrder(run.config)[run.module], ok, mutated, "emit", run.module)
    /\ RunFrame

\* disassemble_*: Self::create_assembly_file(&module, path, &symbol_maps)?
EmitModule ==
    /\ run # NoCall
    /\ run.pc = "emit"
    /\ \E ok \in BOOLEAN :
           Continue("emit", RunOrder(run.config)[run.module], ok, FALSE,
                    IF run.module < Len(RunOrder(run.config)) THEN "load" ELSE "return",
                    IF run.module < Len(RunOrder(run.config)) THEN run.module + 1
                    ELSE run.module)
    /\ RunFrame

RunInit ==
    /\ CoreIdle
    /\ wa = NoCall /\ ps = NoCall /\ lcf = NoCall /\ db = NoCall
    /\ \E config \in RunConfigs :
           run = [fn |-> "run", config |-> config, pc |-> "from_config", module |-> 0,
                  events |-> <<>>, ret |-> Returned(FALSE)]

RunNext == FromConfig \/ LoadModule \/ EmitModule

RunSpec == RunInit /\ [][RunNext]_vars

\* ---------------------------------------------------------------- DumpSpec

DumpFrame == UNCHANGED <<coreVars, wa, ps, lcf, run>>

\* dump_bytes, the body of `while offset < end_offset`: one `.byte` line
DumpLine ==
    /\ db # NoCall
    /\ db.pc = "loop"
    /\ db.offset < db.end_offset
    /\ LET line == ByteLine(db.offset, db.end_offset)
       IN  db' = [db EXCEPT !.lines = Append(@, line), !.offset = @ + Len(line)]
    /\ DumpFrame

\* dump_bytes, the loop test fails: Ok(())
DumpReturn ==
    /\ db # NoCall
    /\ db.pc = "loop"
    /\ ~(db.offset < db.end_offset)
    /\ db' = [db EXCEPT !.pc = "done"]
    /\ DumpFrame

DumpInit ==
    /\ CoreIdle
    /\ wa = NoCall /\ ps = NoCall /\ lcf = NoCall /\ run = NoCall
    /\ \E from \in DumpStarts, len \in 0..MaxDumpLen :
           db = [fn |-> "dump_bytes", from |-> from, offset |-> from,
                 end_offset |-> from + len, lines |-> <<>>, pc |-> "loop"]

DumpNext == DumpLine \/ DumpReturn

DumpSpec == DumpInit /\ [][DumpNext]_vars /\ WF_vars(DumpNext)

\* ---------------------------------------------------------------- C1..C4

\* alignment is 2^k for some k
PowerOfTwo(a) == \E k \in 0..(MaxAlign + 1) : a = 2 ^ k

\* C1: Section::new and Section::inherit fail with EndBeforeStart when
\* end < start, else with AlignmentPowerOfTwo when the alignment is no power of
\* two (0 included), else with MisalignedStart when start is no multiple of the
\* alignment; every other input gives a section with the fields passed, end >=
\* start, a power-of-two alignment, start % alignment = 0 and size = end - start.
C1_SectionNewContract ==
    call # NoCall =>
        IF call.end < call.start
        THEN made = Err([kind |-> "EndBeforeStart", name |-> call.name])
        ELSE IF ~PowerOfTwo(call.alignment)
        THEN made = Err([kind |-> "AlignmentPowerOfTwo", name |-> call.name])
        ELSE IF call.start % call.alignment # 0
        THEN made = Err([kind |-> "MisalignedStart", name |-> call.name])
        ELSE /\ made.ok
             /\ made.val = [name |-> call.name, kind |-> call.kind,
                            start_address |-> call.start, end_address |-> call.end,
                            alignment |-> call.alignment]
             /\ made.val.end_address >= made.val.start_address
             /\ PowerOfTwo(made.val.alignment)
             /\ made.val.start_address % made.val.alignment = 0
             /\ SectionSize(made.val) = call.end - call.start

\* C1 witness: an inherited section of size 2 aligned to 2
C1_Witness ==
    /\ call # NoCall
    /\ call.fn = "inherit"
    /\ made.ok
    /\ made.val.alignment = 2
    /\ SectionSize(made.val) = 2

Disjoint(a, b) == a.end_address <= b.start_address \/ b.end_address <= a.start_address

\* names are unique, no two stored sections overlap, the name index is exact
TableInvariant ==
    /\ \A i, j \in 1..Len(sections) :
           i # j => /\ sections[i].name # sections[j].name
                    /\ Disjoint(sections[i], sections[j])
    /\ DOMAIN sections_by_name = {sections[i].name : i \in 1..Len(sections)}
    /\ \A i \in 1..Len(sections) : sections_by_name[sections[i].name] = i - 1

\* what a step that calls add must do to the table and return
AddContract ==
    (last = NoCall /\ last' # NoCall /\ last'.fn = "add") =>
        LET s == last'.section
        IN  IF \E i \in 1..Len(sections) : sections[i].name = s.name
            THEN /\ last'.ret = Err([kind |-> "DuplicateName", name |-> s.name])
                 /\ sections' = sections
            ELSE IF \E i \in 1..Len(sections) : ~Disjoint(s, sections[i])
            THEN /\ ~last'.ret.ok
                 /\ last'.ret.err.kind = "Overlapping"
                 /\ \E i \in 1..Len(sections) :
                        /\ ~Disjoint(s, sections[i])
                        /\ last'.ret.err.other_name = sections[i].name
                 /\ sections' = sections
            ELSE /\ last'.ret = Ok(Len(sections))
                 /\ sections' = Append(sections, s)

\* no other step changes the table
OnlyAddStores ==
    ~(last = NoCall /\ last' # NoCall /\ last'.fn = "add") => sections' = sections

\* C2: after any sequence of add calls the table holds no two sections with
\* one name and no two overlapping sections; add returns DuplicateName for a
\* name already present, Overlapping for a section overlapping a stored one,
\* and the stored sections are those whose add returned Ok, in call order.
C2_AddKeepsTable == []TableInvariant /\ [][AddContract /\ OnlyAddStores]_vars

\* C2 witness: two sections stored and a third add refused as overlapping the second
C2_Witness ==
    /\ Len(sections) = 2
    /\ last # NoCall
    /\ last.fn = "add"
    /\ ~last.ret.ok
    /\ last.ret.err.kind = "Overlapping"
    /\ last.ret.err.other_name = sections[2].name

\* C3: get_by_contained_address(a) returns the stored section whose
\* [start, end) holds a, with the index it is stored at, and None when no
\* stored section holds a.
C3_ContainedAddress ==
    (last # NoCall /\ last.fn = "get_by_contained_address") =>
        /\ \A i \in 1..Len(sections) :
               (sections[i].start_address <= last.address
                    /\ last.address < sections[i].end_address)
               => last.ret = Some([index |-> i - 1, section |-> sections[i]])
        /\ (\A i \in 1..Len(sections) :
                ~(sections[i].start_address <= last.address
                    /\ last.address < sections[i].end_address))
           => last.ret = None

\* C3 witness: the address lies in the second of two non-empty sections
C3_Witness ==
    /\ last # NoCall
    /\ last.fn = "get_by_contained_address"
    /\ Len(sections) >= 2
    /\ SectionSize(sections[1]) > 0
    /\ last.ret.some
    /\ last.ret.val.index = 1

\* a set of sections that can be stored together
Compatible(S) ==
    \A a, b \in S : a # b => (a.name # b.name /\ Disjoint(a, b))

\* C4: whether adding all sections of a set to an empty table meets an
\* error is decided by the set alone (pairwise distinct names and pairwise
\* disjoint ranges), so it is the same for every order of the calls.
C4_OrderIndependent == failed <=> ~Compatible(attempted)

\* C4 witness: a full set was added and the last call alone failed
C4_Witness ==
    /\ Cardinality(attempted) = MaxSet
    /\ Len(sections) = MaxSet - 1
    /\ failed

\* ---------------------------------------------------------------- C5..C9

\* the relocation registered at the source of the last lookup call, and the
\* module it resolves in
LkRelocation == RelocationsGet(relocations, lk.source)
LkFirst == FirstModule(LkRelocation.val.module)
LkSymbolAddress == AsU32(lk.destination - LkRelocation.val.addend)

\* the symbols of a module's map at an address: exact, and by containing function
ExactAt(map, address) == {s \in map : s.addr = address}
FunctionsAround(map, address) ==
    {s \in map : s.kind = "function" /\ s.addr <= address /\ address < s.addr + s.size}
HitsAt(map, address) ==
    IF ExactAt(map, address) # {} THEN ExactAt(map, address)
    ELSE FunctionsAround(map, address)

\* the text of a call starts, after the line break a set flag asks for, with
\* `.word NAME` and the addend
WordWritten(name, addend) ==
    LET k == IF lk.new_line_in THEN 1 ELSE 0
        text == <<Indent, ".word ", name>>
                \o (IF addend > 0 THEN <<"+">> \o Hex(addend)
                    ELSE IF addend < 0 THEN <<"-">> \o Hex(0 - addend)
                    ELSE <<>>)
    IN  /\ Len(lk.w) > k + Len(text)
        /\ SubSeq(lk.w, k + 1, k + Len(text)) = text
        /\ lk.w[k + Len(text) + 1] \in {" ; ", "\n"}

\* what the claim says of a call whose relocation resolves in a module M
ExternalContract ==
    LET map == SymbolMapsGet(symbol_maps, LkFirst.val)
    IN  IF map.some /\ HitsAt(map.val, LkSymbolAddress) # {}
        THEN /\ lk.ret.outcome = "ok"
             /\ lk.ret.val = TRUE
             /\ \E s \in HitsAt(map.val, LkSymbolAddress) :
                    WordWritten(s.name, LkRelocation.val.addend)
        ELSE /\ lk.ret.outcome = "err"
             /\ lk.w = <<>>

IsExternalCall ==
    /\ lk # NoCall
    /\ lk.fn = "write_symbol"
    /\ LkRelocation.some
    /\ LkFirst.some

\* C5 as stated: with a relocation at source whose first_module() is M,
\* write_symbol resolves destination - addend in M's map (exact, else containing
\* function), writes `.word NAME` and the signed addend and returns true on a hit,
\* and returns an error and writes nothing when M has no map or nothing hits.
C5_Claim == IsExternalCall => ExternalContract

\* C5 amended: the same, for calls in which destination - addend equals the
\* relocation's to_address; in every other call the assertion panics before
\* anything is looked up or written.
C5_WriteSymbolExternal ==
    IsExternalCall =>
        IF LkSymbolAddress = LkRelocation.val.to_address
        THEN ExternalContract
        ELSE lk.ret.outcome = "panic" /\ lk.w = <<>>

\* C5 witness: a negative addend, no symbol at the exact address, a function
\* around it, and a set new_line flag
C5_Witness ==
    /\ IsExternalCall
    /\ lk.ret.outcome = "ok"
    /\ lk.new_line_in
    /\ LkRelocation.val.addend < 0
    /\ ExactAt(symbol_maps[LkFirst.val], LkSymbolAddress) = {}

\* C6 as stated: with a relocation at source whose first_module() is None,
\* write_symbol looks destination up in the local map by exact address, writes
\* `.word NAME` and returns true on a hit, and returns false otherwise.
C6_Claim ==
    (lk # NoCall /\ lk.fn = "write_symbol" /\ LkRelocation.some /\ ~LkFirst.some) =>
        /\ lk.ret.outcome = "ok"
        /\ IF ExactAt(symbol_map, lk.destination) # {}
           THEN /\ lk.ret.val = TRUE
                /\ \E s \in ExactAt(symbol_map, lk.destination) : WordWritten(s.name, 0)
           ELSE lk.ret.val = FALSE

\* C7: with no relocation at source, write_symbol looks destination up in the
\* local map by exact address only; a hit writes the line break a set flag asks
\* for, then `.word NAME`, clears the flag and returns true; a miss returns
\* false, writes nothing and leaves the flag as it was.
C7_WriteSymbolLocal ==
    (lk # NoCall /\ lk.fn = "write_symbol" /\ ~LkRelocation.some) =>
        /\ lk.ret.outcome = "ok"
        /\ IF ExactAt(symbol_map, lk.destination) # {}
           THEN /\ lk.ret.val = TRUE
                /\ \E s \in ExactAt(symbol_map, lk.destination) :
                       lk.w = (IF lk.new_line_in THEN <<"\n">> ELSE <<>>)
                              \o <<Indent, ".word ", s.name, "\n">>
                /\ lk.new_line = FALSE
           ELSE /\ lk.ret.val = FALSE
                /\ lk.w = <<>>
                /\ lk.new_line = lk.new_line_in

\* C7 witness: a local hit with the flag set, at a source beside a relocation
C7_Witness ==
    /\ lk # NoCall
    /\ lk.fn = "write_symbol"
    /\ relocations # NoRelocations
    /\ ~LkRelocation.some
    /\ lk.new_line_in
    /\ lk.ret.outcome = "ok"
    /\ lk.ret.val = TRUE

\* the names of the symbols the peers from i on have at the address, in peer order
RECURSIVE PeerNames(_, _, _)
PeerNames(overlays, i, address) ==
    IF i > Len(overlays) THEN <<>>
    ELSE LET map == SymbolMapsGet(symbol_maps, overlays[i])
             rest == PeerNames(overlays, i + 1, address)
         IN  IF map.some /\ HitsAt(map.val, address) # {}
             THEN <<(CHOOSE s \in HitsAt(map.val, address) : TRUE).name>> \o rest
             ELSE rest

\* names separated by `, `
RECURSIVE CommaSeparated(_)
CommaSeparated(names) ==
    IF Len(names) = 0 THEN <<>>
    ELSE IF Len(names) = 1 THEN names
    ELSE <<Head(names), ", ">> \o CommaSeparated(Tail(names))

\* C8 as stated: when the relocation at source has other_modules(),
\* write_ambiguous_symbols_comment writes ` ; ` and the names of the symbols the
\* peers have at the address, in peer order, separated by `, `; a peer without
\* map or symbol adds nothing, so the list never starts with a separator, and
\* the call never fails.
C8_Claim ==
    (/\ lk # NoCall
     /\ lk.fn = "write_ambiguous_symbols_comment"
     /\ LkRelocation.some
     /\ OtherModules(LkRelocation.val.module).some) =>
        /\ lk.ret.outcome = "ok"
        /\ lk.w = <<" ; ">>
                  \o CommaSeparated(PeerNames(OtherModules(LkRelocation.val.module).val,
                                              1, lk.destination))

\* C9 as stated: lookup_symbol_name returns the NAME that write_symbol writes
\* after `.word` for the same source, destination, maps and relocations, and
\* returns None without aborting whenever write_symbol returns false.
C9_Claim ==
    (lk # NoCall /\ lk.fn = "lookup_symbol_name") =>
        LET ws == WriteSymbol(symbol_map, symbol_maps, relocations,
                              lk.source, lk.destination, FALSE, Indent)
        IN  /\ (ws.ret.outcome = "ok" /\ ws.ret.val = TRUE) =>
                   (lk.ret.outcome = "ok" /\ lk.ret.val = Some(ws.w[3]))
            /\ (ws.ret.outcome = "ok" /\ ws.ret.val = FALSE) =>
                   (lk.ret.outcome = "ok" /\ lk.ret.val = None)

\* ---------------------------------------------------------------- C10

\* the symbols disassemble writes lie inside the section, are of a kind the
\* section can hold and do not reach into the next symbol or past the section
WellFormedSymbols ==
    \A i \in 1..Len(dis_symbols) :
        LET s == dis_symbols[i]
        IN  /\ InSection(dis_section, s)
            /\ s.kind \in {"function", "data", "bss"}
            /\ (s.kind = "bss") <=> ~HasCode(dis_section)
            /\ s.size.some =>
                   /\ s.addr + s.size.val <= dis_section.end_address
                   /\ i < Len(dis_symbols) => s.addr + s.size.val <= dis_symbols[i + 1].addr

\* C10 as stated: the bytes the directives of a section denote, in output
\* order, are the section's bytes: every label is written at output position
\* symbol.addr - section.start and the length written is section.size.
C10_Claim ==
    (dis_pc = "done" /\ WellFormedSymbols) =>
        /\ Len(out) = SectionSize(dis_section)
        /\ HasCode(dis_section) => out = CodeBytes(0, SectionSize(dis_section))
        /\ \A i \in 1..Len(labels) :
               labels[i].pos = labels[i].addr - dis_section.start_address

\* ---------------------------------------------------------------- C11..C12

\* the elements of bytes from position at on, decoded little-endian in the
\* declared element size
RECURSIVE Elements(_, _, _)
Elements(self, bytes, at) ==
    IF at + ElementSize(self) > Len(bytes) + 1 THEN <<>>
    ELSE LET e == SubSeq(bytes, at, at + ElementSize(self) - 1)
             v == CASE ElementSize(self) = 1 -> e[1]
                    [] ElementSize(self) = 2 -> e[1] + 256 * e[2]
                    [] OTHER -> e[1] + 256 * e[2] + 65536 * e[3] + 16777216 * e[4]
         IN  <<v>> \o Elements(self, bytes, at + ElementSize(self))

\* the values the literals of a text denote are not read back from the text:
\* the text the claim describes is built from the decoded elements instead
LiteralText(self, v) == IF ElementSize(self) = 1 THEN Hex02(v) ELSE Hex(v)

RECURSIVE LiteralList(_, _)
LiteralList(self, values) ==
    IF values = <<>> THEN <<>>
    ELSE IF Len(values) = 1 THEN LiteralText(self, values[1])
    ELSE LiteralText(self, values[1]) \o <<", ">> \o LiteralList(self, Tail(values))

Directive(self) ==
    CASE self.variant = "short" -> ".short "
      [] self.variant = "word" -> ".word "
      [] OTHER -> ".byte "

\* the directive lines of the rows of bytes from row on
RECURSIVE LiteralRows(_, _, _)
LiteralRows(self, bytes, row) ==
    IF row >= Len(bytes) THEN <<>>
    ELSE LET upto == IF row + RowWidth < Len(bytes) THEN row + RowWidth ELSE Len(bytes)
         IN  <<DataIndent, Directive(self)>>
             \o LiteralList(self, Elements(self, SubSeq(bytes, row + 1, upto), 1))
             \o <<"\n">> \o LiteralRows(self, bytes, row + RowWidth)

\* a call on whole elements, none of whose words resolves, with enough bytes
IsLiteralCall ==
    /\ wa # NoCall
    /\ wa.symbols = NoSymbols
    /\ Len(wa.bytes) % ElementSize(wa.self) = 0
    /\ DataSize(wa.self).some => Len(wa.bytes) >= DataSize(wa.self).val

\* C11 as stated: for a data symbol none of whose words resolves,
\* write_assembly writes every literal in the declared element size, decoded
\* little-endian: a `.byte` value is one byte, a `.short` value, the first of a
\* line included, is bytes[i] + 256*bytes[i+1], a `.word` value is the 4-byte word.
C11_Claim ==
    IsLiteralCall =>
        /\ wa.ret.outcome = "ok"
        /\ wa.w = LiteralRows(wa.self, wa.bytes, 0)

\* a call whose declared size is larger than the number of bytes supplied
IsShortCall ==
    /\ wa # NoCall
    /\ DataSize(wa.self).some
    /\ Len(wa.bytes) < DataSize(wa.self).val

\* C12: write_assembly called with a declared size larger than the number of
\* bytes supplied returns an error and writes nothing.
C12_NotEnoughBytes == IsShortCall => (wa.ret.outcome = "err" /\ wa.w = <<>>)

\* C12 witness: bytes were supplied, one fewer than declared, and refused
C12_Witness ==
    /\ IsShortCall
    /\ Len(wa.bytes) > 0
    /\ Len(wa.bytes) + 1 = DataSize(wa.self).val
    /\ wa.ret.outcome = "err"

\* ---------------------------------------------------------------- C13..C14

\* the attributes of the line of the last parse call
PsAttributes == ps.line.attributes
PsKeys == {PsAttributes[i].key : i \in 1..Len(PsAttributes)}

\* the value the line gives a key (the last one, when the key is repeated)
LastValue(key) ==
    LET at == {i \in 1..Len(PsAttributes) : PsAttributes[i].key = key}
    IN  PsAttributes[CHOOSE i \in at : \A j \in at : j <= i].value

\* an attribute the parser named cannot take: a key it does not know or must not
\* see, or a value that is not a number or a kind
IsNumber(value) == value \in {"0", "1", "2", "3", "4", "0x0", "0x1", "0x2", "0x3", "0x4"}
NumberOf(value) ==
    CASE value \in {"0", "0x0"} -> 0
      [] value \in {"1", "0x1"} -> 1
      [] value \in {"2", "0x2"} -> 2
      [] value \in {"3", "0x3"} -> 3
      [] OTHER -> 4
Faulty(attribute, known) ==
    \/ attribute.key \notin known
    \/ attribute.key = "kind" /\ attribute.value \notin Kinds
    \/ attribute.key \in {"start", "end", "align"} /\ ~IsNumber(attribute.value)

\* the first faulty attribute of the line, 0 when there is none
FirstFault(known) ==
    LET at == {i \in 1..Len(PsAttributes) : Faulty(PsAttributes[i], known)}
    IN  IF at = {} THEN 0 ELSE CHOOSE i \in at : \A j \in at : i <= j

\* start, end and alignment satisfy the section invariant
Invariant(start, end, align) ==
    /\ start <= end
    /\ \E k \in 0..4 : align = 2 ^ k
    /\ start % align = 0

FourKeys == {"kind", "start", "end", "align"}

InheritKeys == {"start", "end"}

\* the header section the line of the last parse_inherit call names
PsHeader ==
    LET at == {i \in 1..Len(ps.sections) : ps.sections[i].name = ps.line.name.val}
    IN  IF at = {} THEN None ELSE Some(ps.sections[CHOOSE i \in at : TRUE])

\* C14: Section::parse_inherit on a line NAME start:S end:E with NAME in the
\* header table yields a section with the name, kind and alignment of the
\* header's NAME and with start S and end E (S and E satisfying the section
\* invariant); it fails with NotInHeader when NAME is not in the table, with
\* InheritedAttribute when the line carries kind or align (as its first
\* fault), and with MissingAttribute when start or end is absent.
C14_ParseInherit ==
    (ps # NoCall /\ ps.fn = "parse_inherit" /\ ps.line.name.some) =>
        IF ~PsHeader.some
        THEN ps.ret = Err([kind |-> "NotInHeader", name |-> ps.line.name.val])
        ELSE IF FirstFault(InheritKeys) # 0
        THEN LET bad == PsAttributes[FirstFault(InheritKeys)]
             IN  /\ ~ps.ret.ok
                 /\ bad.key \in {"kind", "align"} =>
                        ps.ret.err = [kind |-> "InheritedAttribute", attribute |-> bad.key]
        ELSE IF InheritKeys \ PsKeys # {}
        THEN /\ ~ps.ret.ok
             /\ ps.ret.err.kind = "MissingAttribute"
             /\ ps.ret.err.attribute \in InheritKeys \ PsKeys
        ELSE LET start == NumberOf(LastValue("start"))
                 end == NumberOf(LastValue("end"))
             IN  IF Invariant(start, end, PsHeader.val.alignment)
                 THEN ps.ret = Ok(Some([name |-> PsHeader.val.name,
                                        kind |-> PsHeader.val.kind,
                                        start_address |-> start, end_address |-> end,
                                        alignment |-> PsHeader.val.alignment]))
                 ELSE ~ps.ret.ok /\ ps.ret.err.kind = "Section"

\* C14 witness: the line names the second section of a header of two and the
\* call yields a section
C14_Witness ==
    /\ ps # NoCall
    /\ ps.fn = "parse_inherit"
    /\ Len(ps.sections) = 2
    /\ ps.line.name = Some(ps.sections[2].name)
    /\ ps.ret.ok
    /\ ps.ret.val.some

\* ---------------------------------------------------------------- C15..C17

\* concatenation of the texts f(s[i]) for i = from..Len(s)
RECURSIVE Concat(_, _, _)
Concat(f(_), s, from) ==
    IF from > Len(s) THEN <<>> ELSE f(s[from]) \o Concat(f, s, from + 1)

\* the memory name of an overlay with an id below ten
OvText(id) == <<"OV", "0", "0", DecDigit(id)>>

\* names separated by commas
RECURSIVE OvTexts(_)
OvTexts(ids) ==
    IF Len(ids) = 0 THEN <<>>
    ELSE IF Len(ids) = 1 THEN OvText(ids[1])
    ELSE OvText(ids[1]) \o <<",">> \o OvTexts(Tail(ids))

\* the lines of a group: one per overlay, all with the same AFTER list
GroupText(group) ==
    LET after == IF group.after = <<>> THEN <<"ARM9">> ELSE OvTexts(group.after)
        line(id) == <<"    ">> \o OvText(id) \o <<" : ORIGIN = AFTER(">> \o after
                    \o <<") > ", DecDigit(id), "/", "module.bin", "\n">>
    IN  Concat(line, group.overlays, 1)

\* C15: write_memory_section writes, for every overlay group in group order and
\* every overlay id of the group, exactly one line
\* `OVnnn : ORIGIN = AFTER(...) > path`, whose AFTER list is `ARM9` exactly when
\* group.after is empty and otherwise the OVnnn names of the ids of group.after,
\* in order, separated by commas.
C15_MemoryOverlays ==
    (lcf # NoCall /\ lcf.fn = "write_memory_section" /\ lcf.ret.outcome = "ok") =>
        LET overlays == Concat(GroupText, lcf.overlay_groups, 1)
            before == Len(lcf.w) - Len(overlays) - 3
        IN  /\ before >= 0
            /\ SubSeq(lcf.w, before + 1, Len(lcf.w)) = overlays \o <<"}", "\n", "\n">>
            /\ \A i \in 1..before : lcf.w[i] \notin {"OV", " : ORIGIN = AFTER("}

\* C15 witness: a group after ARM9 and a group of two overlays after two others
C15_Witness ==
    /\ lcf # NoCall
    /\ lcf.fn = "write_memory_section"
    /\ lcf.ret.outcome = "ok"
    /\ Len(lcf.overlay_groups) = 2
    /\ lcf.overlay_groups[1].after = <<>>
    /\ Len(lcf.overlay_groups[2].after) = 2
    /\ Len(lcf.overlay_groups[2].overlays) = 2

\* the memory name and module name of a module of the config
MemText(kind) ==
    CASE kind.t = "arm9" -> <<"ARM9">>
      [] kind.t = "overlay" -> OvText(kind.id)
      [] kind.kind = "itcm" -> <<"ITCM">>
      [] OTHER -> <<"DTCM">>
ModText(kind) ==
    CASE kind.t = "arm9" -> <<".arm9">>
      [] kind.t = "overlay" -> <<".ov", "0", "0", DecDigit(kind.id)>>
      [] kind.kind = "itcm" -> <<".itcm">>
      [] OTHER -> <<".dtcm">>

\* the header sections by ascending start address (the starts are distinct)
AddressOrder(secs) ==
    [i \in 1..Len(secs) |->
        CHOOSE s \in {secs[k] : k \in 1..Len(secs)} :
            Cardinality({k \in 1..Len(secs) : secs[k].start_address < s.start_address}) = i - 1]

SectionNamesOf(file) == {file.sections.sections[k].name : k \in 1..Len(file.sections.sections)}

\* the block of a module: per section ALIGN, START, the files holding it, END
ModuleText(m) ==
    LET delinks == m.module.delinks.val
        section_text(section) ==
            LET file_text(file) ==
                    IF section.name \in SectionNamesOf(file)
                    THEN <<"        ", file.path[Len(file.path)], ".o(", section.name, ")", "\n">>
                    ELSE <<>>
                bound == IF section.name = ".text" THEN "text" ELSE "data"
            IN  <<"        . = ALIGN(", DecDigit(section.alignment), ");", "\n", "        ">>
                \o MemText(m.kind) \o <<"_", bound, "_START = .;", "\n">>
                \o Concat(file_text, delinks.files, 1)
                \o <<"        ">> \o MemText(m.kind) \o <<"_", bound, "_END = .;", "\n">>
    IN  <<"    ">> \o ModText(m.kind) \o <<" : {", "\n">>
        \o Concat(section_text, AddressOrder(delinks.sections.sections), 1)
        \o <<"    } > ">> \o MemText(m.kind) \o <<"\n", "\n">>

IsSectionsCall ==
    /\ lcf # NoCall
    /\ lcf.fn = "write_sections_section"
    /\ lcf.ret.outcome = "ok"

\* C16: write_module_section writes, inside each block `.MODNAME : { ... } >
\* MEMNAME`, the header sections in ascending start-address order and for each
\* `. = ALIGN(N);`, `MEMNAME_BOUND_START = .;`, one `FILEBASENAME.o(.sec)` line
\* for each file, in delinks order, whose section table holds the section, and
\* `MEMNAME_BOUND_END = .;`.
C16_ModuleSections ==
    IsSectionsCall =>
        lcf.w = <<"SECTIONS {", "\n">> \o Concat(ModuleText, ConfigModules(lcf.config), 1)
                \o <<"}", "\n", "\n">>

\* C16 witness: the header stores its sections out of address order and one of
\* two files lacks a section the other has
C16_Witness ==
    /\ IsSectionsCall
    /\ LET delinks == lcf.config.main_module.delinks.val
       IN  /\ Len(delinks.sections.sections) = 2
           /\ delinks.sections.sections[1].start_address
                  > delinks.sections.sections[2].start_address
           /\ Len(delinks.files) = 2
           /\ SectionNamesOf(delinks.files[1]) = {".data"}
           /\ SectionNamesOf(delinks.files[2]) = {".text", ".data"}

\* a path below a base path, components joined by `/`
RECURSIVE Slashed(_)
Slashed(path) == IF Len(path) = 1 THEN path ELSE <<path[1], "/">> \o Slashed(Tail(path))

\* the object-list lines of a module: one per file, in delinks order
ObjectText(m) ==
    LET line(file) ==
            Slashed((IF file.complete THEN <<"build">> ELSE <<"config", "delinks">>)
                    \o file.path) \o <<".o", "\n">>
    IN  Concat(line, m.module.delinks.val.files, 1)

\* C17: the object list holds exactly one `FILEPATH.o` line for each file of each
\* module (main module, autoloads, overlays; files in delinks order), below the
\* build path if and only if the file is marked complete, else below the
\* delinks path.
C17_ObjectList ==
    IsSectionsCall => lcf.objects = Concat(ObjectText, ConfigModules(lcf.config), 1)

\* C17 witness: a complete and an incomplete file in the main module, and an overlay
C17_Witness ==
    /\ IsSectionsCall
    /\ Len(lcf.config.overlays) = 1
    /\ LET files == lcf.config.main_module.delinks.val.files
       IN  /\ Len(files) = 2
           /\ files[1].complete
           /\ ~files[2].complete

\* ---------------------------------------------------------------- C18..C19

\* C18 as stated: once the emission of a module's assembly has begun, no module
\* is loaded and no symbol map of the registry is changed for the rest of the
\* run: loading all modules precedes emitting all modules.
C18_Claim ==
    (run # NoCall) =>
        \A i, j \in 1..Len(run.events) :
            (i < j /\ run.events[i].step = "emit") =>
                (run.events[j].step # "load" /\ ~run.events[j].mutated)

\* C19: the first failure aborts the command: after a step that failed, run has
\* returned that step's error and nothing was done after it; run does not
\* return before the last module was emitted otherwise.
C19_FirstFailureAborts ==
    (run # NoCall) =>
        /\ \A i \in 1..Len(run.events) :
               ~run.events[i].ok =>
                   /\ i = Len(run.events)
                   /\ run.pc = "return"
                   /\ run.ret = Failed(<<run.events[i].step, run.events[i].module>>)
        /\ (run.pc = "return"
            /\ \A i \in 1..Len(run.events) : run.events[i].ok) =>
               /\ run.ret = Returned(TRUE)
               /\ Len(run.events) = 1 + 2 * Len(RunOrder(run.config))
        /\ \A i \in 1..Len(run.events) :
               i > 1 => run.events[i].module = RunOrder(run.config)[i \div 2]

\* C19 witness: ARM9 and an autoload were loaded and emitted, the first overlay
\* failed to load, and a second overlay was never touched
C19_Witness ==
    /\ run # NoCall
    /\ run.pc = "return"
    /\ Len(run.config.autoloads) = 1
    /\ Len(run.config.overlays) = 2
    /\ Len(run.events) = 6
    /\ run.events[6] = Event("load", [t |-> "overlay", id |-> 0], FALSE, FALSE)
    /\ run.ret.outcome = "err"

\* ---------------------------------------------------------------- C20

\* the lines written so far hold the bytes from the first offset up to the
\* running offset, each once and in ascending order, 1 to 16 to a line
LinesSoFar ==
    /\ Flatten(db.lines) = [i \in 1..(db.offset - db.from) |-> db.from + i - 1]
    /\ db.offset <= db.end_offset
    /\ \A k \in 1..Len(db.lines) : Len(db.lines[k]) >= 1 /\ Len(db.lines[k]) <= 16

\* C20: dump_bytes(code, offset, end_offset) with offset <= end_offset <=
\* len(code) terminates, and has then written exactly the bytes
\* code[offset..end_offset), each once and in ascending order, as `.byte` lines
\* of exactly 16 values except possibly the last, none of them empty.
C20_DumpBytes ==
    /\ [](LinesSoFar
          /\ (db.pc = "done" =>
                 /\ db.offset = db.end_offset
                 /\ \A k \in 1..(Len(db.lines) - 1) : Len(db.lines[k]) = 16))
    /\ <>(db.pc = "done")

\* C20 witness: two full lines and a short one, from an offset other than 0
C20_Witness ==
    /\ db # NoCall
    /\ db.pc = "done"
    /\ db.from > 0
    /\ Len(db.lines) = 3
    /\ Len(db.lines[3]) < 16


\* ---------------------------------------------------------------- C21

\* the number of times the byte at offset o was emitted by the call
TimesEmitted(o) == Cardinality({i \in DOMAIN wa.emitted : wa.emitted[i] = o})

\* a call that ran to completion
IsCompletedCall == wa # NoCall /\ wa.ret.outcome = "ok"

\* C21 as stated: write_assembly covers every byte of the symbol exactly once,
\* also when words resolve to symbols: a resolved `.word SYMBOL` stands for the
\* 4 bytes at its position and the next row starts at the first byte not yet
\* emitted, so no byte is emitted twice or skipped, for any start address and
\* any element size.
C21_Claim ==
    IsCompletedCall =>
        \A o \in 0..(Len(wa.bytes) - 1) : TimesEmitted(o) = 1

\* no byte is skipped, and the bytes come out in ascending order up to the
\* repetition at a row boundary
C21_NoneSkipped ==
    IsCompletedCall =>
        \A o \in 0..(Len(wa.bytes) - 1) : TimesEmitted(o) >= 1

\* from a 4-byte-aligned start address every byte is emitted exactly once
C21_AlignedStart ==
    (IsCompletedCall /\ wa.symbol.addr % 4 = 0) =>
        wa.emitted = Offsets(0, Len(wa.bytes))


\* ---------------------------------------------------------------- C22

\* the symbol the loop body is about to handle is a Data or Bss symbol without
\* a declared size inside the section (a Data symbol in a section with bytes)
IsSizelessStep ==
    /\ dis_pc = "symbols"
    /\ dis_next <= Len(dis_symbols)
    /\ InSection(dis_section, dis_symbols[dis_next])
    /\ dis_symbols[dis_next].kind \in {"data", "bss"}
    /\ ~dis_symbols[dis_next].size.some
    /\ dis_symbols[dis_next].kind = "data" => HasCode(dis_section)

\* the positions after i of the symbols inside the section
InRangeAfter(i) == {j \in (i + 1)..Len(dis_symbols) : InSection(dis_section, dis_symbols[j])}

\* the size the claim describes for the symbol at position i, in the integers
SizeToNextInRange(i) ==
    IF InRangeAfter(i) = {} THEN dis_section.end_address - dis_symbols[i].addr
    ELSE LET j == CHOOSE j \in InRangeAfter(i) : \A k \in InRangeAfter(i) : j <= k
         IN  Min(dis_symbols[j].addr, dis_section.end_address) - dis_symbols[i].addr

\* C22: for a Data or Bss symbol without a declared size inside the section,
\* with the symbols iterated in ascending address order, the loop body takes
\* as size min(address of the next in-range symbol, section.end) - symbol.addr,
\* or section.end - symbol.addr when none follows: the subtraction does not
\* underflow, symbol.addr + size does not exceed section.end (the slice of a
\* Data symbol does not panic), and the offset advances by that size.
C22_SizeToNextSymbol ==
    [][IsSizelessStep =>
          LET symbol == dis_symbols[dis_next]
              size == SizeToNextInRange(dis_next)
          IN  /\ size >= 0
              /\ symbol.addr + size <= dis_section.end_address
              /\ dis_pc' = "symbols"
              /\ dis_next' = dis_next + 1
              /\ symbol.kind = "data" =>
                     offset' = symbol.addr - dis_section.start_address + size
              /\ symbol.kind = "bss" => offset' = offset + size]_vars

\* C22 witness: a Data symbol without a declared size was written up to the
\* section's end, the next symbol of the map lying beyond the section
C22_Witness ==
    /\ dis_pc = "symbols"
    /\ dis_next > 1
    /\ dis_next <= Len(dis_symbols)
    /\ dis_symbols[dis_next - 1].kind = "data"
    /\ ~dis_symbols[dis_next - 1].size.some
    /\ InSection(dis_section, dis_symbols[dis_next - 1])
    /\ dis_symbols[dis_next].addr > dis_section.end_address
    /\ dis_symbols[dis_next - 1].addr + 1 < dis_section.end_address
    /\ offset = SectionSize(dis_section)


\* ---------------------------------------------------------------- C23

\* the tokens of text before position i, back to the line's indent
RECURSIVE NameBefore(_, _)
NameBefore(text, i) ==
    IF i <= 1 \/ text[i - 1] = "    " THEN <<>>
    ELSE Append(NameBefore(text, i - 1), text[i - 1])

\* the tokens of text after position i, up to the end of the line
RECURSIVE NameAfter(_, _)
NameAfter(text, i) ==
    IF i >= Len(text) \/ text[i + 1] = "\n" THEN <<>>
    ELSE <<text[i + 1]>> \o NameAfter(text, i + 1)

\* the positions of the lines of the MEMORY block that define the region name
DefinedAt(text, name) ==
    {i \in 1..Len(text) :
        \/ text[i] = "    ARM9 : ORIGIN = " /\ name = <<"ARM9">>
        \/ text[i] \in {" : ORIGIN = ", " : ORIGIN = AFTER("} /\ NameBefore(text, i) = name}

\* the region names the blocks of SECTIONS are directed to
Targets(text) == {NameAfter(text, i) : i \in {j \in 1..Len(text) : text[j] = "    } > "}}

\* a run of the lcf command that completed
IsCompletedRun == lcf # NoCall /\ lcf.fn = "run" /\ lcf.ret.outcome = "ok"

\* C23 as stated: whenever the lcf command completes, every memory region
\* name a SECTIONS block is directed to (`> ARM9`, `> ITCM`, `> DTCM`, `> OVnnn`)
\* is defined by exactly one line of the MEMORY block, for every combination
\* of config modules, ROM autoloads and overlay groups.
C23_Claim ==
    IsCompletedRun =>
        \A name \in Targets(lcf.w) : Cardinality(DefinedAt(lcf.w, name)) = 1

\* the config lists the ROM's autoloads and overlays and no others
ConfigMatchesRom ==
    /\ {lcf.config.autoloads[i].kind : i \in 1..Len(lcf.config.autoloads)}
           = {lcf.rom.autoloads[i].kind : i \in 1..Len(lcf.rom.autoloads)}
    /\ {lcf.config.overlays[i].id : i \in 1..Len(lcf.config.overlays)}
           = {lcf.rom.arm9_overlays[i].id : i \in 1..Len(lcf.rom.arm9_overlays)}

\* with a config that matches the ROM every target is defined exactly once
C23_MatchingConfig ==
    (IsCompletedRun /\ ConfigMatchesRom) =>
        \A name \in Targets(lcf.w) : Cardinality(DefinedAt(lcf.w, name)) = 1

\* no region is ever defined by two lines
C23_NeverTwice ==
    IsCompletedRun =>
        \A name \in Targets(lcf.w) : Cardinality(DefinedAt(lcf.w, name)) <= 1

====
